---- MODULE Spec2Model ----
(***************************************************************************)
(* MPVRP-CC (multi-product vehicle routing with changeover cost): the      *)
(* instance model, the product-by-product decomposition of solve(), the    *)
(* greedy fallback, the route assembler and the two validators of          *)
(* src/src/mpvrpcc_ortools_new.py, and the driver run_test_process of      *)
(* src/src/test_ortools.py.                                                *)
(*                                                                         *)
(* Quantities (demand, stock, capacity) are integers.  Coordinates are     *)
(* drawn from the corners of a 3 x 4 rectangle, where every Euclidean      *)
(* distance is an integer (0, 3, 4 or 5), so math.sqrt is exact.           *)
(* The OR-Tools search is an external oracle: its answer for a round is    *)
(* any family of disjoint station lists, one per vehicle, or no solution.  *)
(*                                                                         *)
(* A loop of the code is a recursive operator; a value the code keeps in a *)
(* local variable is a parameter of the operator that models the rest of   *)
(* the loop body.                                                         *)
(***************************************************************************)
EXTENDS Integers, Sequences, FiniteSets, TLC

VARIABLES
    garages,            \* instance.garages: list of Location
    depots,             \* instance.depots: list of Depot
    stations,           \* instance.stations: list of Station
    trucks,             \* instance.trucks: list of Truck
    products,           \* instance.products: set of product ids
    changeover_costs,   \* instance.changeover_costs: dict (from, to) -> cost
    distance_matrix,    \* instance.distance_matrix: the distance cache
    solution,           \* solver.solution
    routes,             \* local `routes` of _solve_product_by_product
    remaining_demand,   \* local `remaining_demand` of _solve_product_by_product
    todo,               \* products the for loop of line 260 has still to visit
    product_routes,     \* local `product_routes` of the current iteration
    rounds,             \* what each iteration did: product, depot, oracle answer
    pc,                 \* position of the caller / of solve()
    run,                \* how many times solve() was entered on this solver
    first_solution,     \* what the first solve() returned
    valid,              \* validate_instance()[0]
    errors,             \* validate_instance()[1]
    sol_result,         \* validate_solution() result
    metrics,            \* get_metrics() result
    dist_call,          \* last call of instance.distance and its outcome
    used_trucks,        \* local `used_trucks` of _solve_product_by_product
    cost_call,          \* last call of instance.get_changeover_cost and its outcome
    mini_call,          \* last call of solver._build_mini_route and its outcome
    greedy_call         \* last call of solver._assign_stations_greedy and its outcome

instance_vars == <<garages, depots, stations, trucks, products, changeover_costs>>
solver_vars == <<solution, routes, remaining_demand, todo, product_routes, rounds, run,
                 first_solution, used_trucks>>
report_vars == <<valid, errors, sol_result, metrics>>
query_vars == <<dist_call, cost_call, mini_call, greedy_call>>
vars == <<garages, depots, stations, trucks, products, changeover_costs, distance_matrix,
          solution, routes, remaining_demand, todo, product_routes, rounds, pc, run,
          first_solution, valid, errors, sol_result, metrics, dist_call, used_trucks,
          cost_call, mini_call, greedy_call>>

(***************************************************************************)
(* Bounds of the model and the instances it draws.                         *)
(***************************************************************************)
\* Largest demand of one station for one product.
MaxQty == 2

Products == {0, 1}
Quantities == 0..MaxQty
\* A truck is either too small for most stations or holds one station's
\* largest demand and one unit more (one fleet also has a truck that holds
\* nothing).
Capacities == {1, MaxQty + 1}
\* A depot holds nothing, one unit, or enough for two stations.
Stocks == {0, 1, 2 * MaxQty}

None == "None"

(***************************************************************************)
(* Generic helpers.                                                        *)
(***************************************************************************)
\* dict.get(k, default)
Get(d, k, default) == IF k \in DOMAIN d THEN d[k] ELSE default

RECURSIVE SumSeq(_)
\* sum(...) over a list of numbers
SumSeq(s) == IF s = <<>> THEN 0 ELSE Head(s) + SumSeq(Tail(s))

RECURSIVE MaxSeq(_)
\* max(...) over a non-empty list of numbers
MaxSeq(s) == IF Len(s) = 1 THEN s[1]
             ELSE LET m == MaxSeq(Tail(s)) IN IF Head(s) >= m THEN Head(s) ELSE m

Min2(a, b) == IF a <= b THEN a ELSE b

RECURSIVE SortedSeq(_)
\* sorted(S) for a finite set of integers
SortedSeq(S) == IF S = {} THEN <<>>
                ELSE LET m == CHOOSE x \in S : \A y \in S : x <= y
                     IN <<m>> \o SortedSeq(S \ {m})

\* [f(x) for x in s if Test(x)] is SelectSeq; [f(x) for x in s]:
Range(s) == {s[i] : i \in 1..Len(s)}

\* list.remove(x): drops the first element equal to x
RemoveFirst(s, x) ==
    LET i == CHOOSE j \in 1..Len(s) : s[j] = x /\ \A k \in 1..(j - 1) : s[k] # x
    IN SubSeq(s, 1, i - 1) \o SubSeq(s, i + 1, Len(s))

(***************************************************************************)
(* Instance model: dataclasses and add_* methods.                          *)
(***************************************************************************)
GARAGE == "garage"
DEPOT == "depot"
STATION == "station"

Location(i, px, py) == [id |-> i, x |-> px, y |-> py]
Truck(i, cap, gid, init) == [id |-> i, capacity |-> cap, garage_id |-> gid, initial_product |-> init]
Depot(i, px, py, stk) == [id |-> i, location |-> Location(i, px, py), stock |-> stk]
Station(i, px, py, dem) == [id |-> i, location |-> Location(i, px, py), demand |-> dem]

\* add_garage / add_depot / add_station / add_truck give the new element the id
\* len(list) + 1, so the i-th element of each list has id i.
add_garage(gs, px, py) == Append(gs, Location(Len(gs) + 1, px, py))
add_depot(ds, px, py, stk) == Append(ds, Depot(Len(ds) + 1, px, py, stk))
add_station(ss, px, py, dem) == Append(ss, Station(Len(ss) + 1, px, py, dem))
add_truck(ts, cap, gid, init) == Append(ts, Truck(Len(ts) + 1, cap, gid, init))

\* self.products.update(stock.keys()) / update(demand.keys())
ProductsOf(ds, ss) ==
    UNION {DOMAIN ds[i].stock : i \in 1..Len(ds)} \cup UNION {DOMAIN ss[i].demand : i \in 1..Len(ss)}

(***************************************************************************)
(* Geometry and cost model.                                                *)
(***************************************************************************)
\* math.sqrt on the squared distances the model's coordinates produce
Sqrt(n) == CHOOSE r \in 0..n : r * r <= n /\ n < (r + 1) * (r + 1)

\* next(x for x in list if x.id == loc_id): the first match, or StopIteration
FirstWithId(list, loc_id) ==
    IF \E i \in 1..Len(list) : list[i].id = loc_id
    THEN [exc |-> None,
          value |-> list[CHOOSE j \in 1..Len(list) :
                           list[j].id = loc_id /\ \A k \in 1..(j - 1) : list[k].id # loc_id]]
    ELSE [exc |-> "StopIteration", value |-> None]

\* d.location / s.location of the element found
LocationOf(r) == IF r.exc = None THEN [exc |-> None, value |-> r.value.location] ELSE r

\* _get_location
get_location(gs, ds, ss, loc_type, loc_id) ==
    IF loc_type = GARAGE THEN FirstWithId(gs, loc_id)
    ELSE IF loc_type = DEPOT THEN LocationOf(FirstWithId(ds, loc_id))
    ELSE IF loc_type = STATION THEN LocationOf(FirstWithId(ss, loc_id))
    ELSE [exc |-> "ValueError", value |-> None]

\* line 150
Euclid(loc1, loc2) ==
    Sqrt((loc1.x - loc2.x) * (loc1.x - loc2.x) + (loc1.y - loc2.y) * (loc1.y - loc2.y))

\* dict[k] = v
Store(d, k, v) == [j \in DOMAIN d \cup {k} |-> IF j = k THEN v ELSE d[j]]

ReverseKey(key) == <<key[3], key[4], key[1], key[2]>>

\* Variant: only the key of the call is written.
StoreOne(dm, key, dist) == Store(dm, key, dist)

\* lines 152-153: the two writes into the cache
StoreBoth(dm, key, dist) == Store(Store(dm, key, dist), ReverseKey(key), dist)

\* lines 150-155, once both locations are found
DistanceWrite(dm, key, dist) == [exc |-> None, value |-> dist, dm |-> StoreBoth(dm, key, dist)]

\* lines 147-155: a lookup that fails raises before anything is written
DistanceCompute(dm, key, loc1, loc2) ==
    IF loc1.exc # None THEN [exc |-> loc1.exc, value |-> 0, dm |-> dm]
    ELSE IF loc2.exc # None THEN [exc |-> loc2.exc, value |-> 0, dm |-> dm]
    ELSE DistanceWrite(dm, key, Euclid(loc1.value, loc2.value))

\* instance.distance(loc_type1, id1, loc_type2, id2) on the cache dm, with
\* key = (loc_type1, id1, loc_type2, id2): the value returned (or the
\* exception raised) and the cache afterwards
distance(gs, ds, ss, dm, key) ==
    IF key \in DOMAIN dm THEN [exc |-> None, value |-> dm[key], dm |-> dm]
    ELSE DistanceCompute(dm, key, get_location(gs, ds, ss, key[1], key[2]),
                         get_location(gs, ds, ss, key[3], key[4]))

\* Variant: a missing entry is looked up under the reversed pair.
SymmetricCost(costs, from_product, to_product) ==
    IF from_product = to_product THEN 0
    ELSE Get(costs, <<from_product, to_product>>,
             Get(costs, <<to_product, from_product>>, 0))

get_changeover_cost(costs, from_product, to_product) ==
    IF from_product = to_product THEN 0
    ELSE Get(costs, <<from_product, to_product>>, 0)

(***************************************************************************)
(* Instance validation.                                                    *)
(***************************************************************************)
\* get_total_demand(): product -> summed demand, over the products some
\* station's demand dict names
get_total_demand(ss) ==
    [p \in UNION {DOMAIN ss[i].demand : i \in 1..Len(ss)} |->
        SumSeq([i \in 1..Len(ss) |-> Get(ss[i].demand, p, 0)])]

\* line 191
TotalStock(ds, product) == SumSeq([i \in 1..Len(ds) |-> Get(ds[i].stock, product, 0)])

RECURSIVE StockErrors(_, _, _)
\* the loop of lines 190-193 over the products of total_demand
StockErrors(ds, total_demand, ps) ==
    IF ps = <<>> THEN <<>>
    ELSE (IF TotalStock(ds, Head(ps)) < total_demand[Head(ps)]
          THEN <<<<"stock", Head(ps), TotalStock(ds, Head(ps)), total_demand[Head(ps)]>>>>
          ELSE <<>>) \o StockErrors(ds, total_demand, Tail(ps))

\* Variant: the capacity is compared with the demand of all products together.
SumOfDemands(total_demand) ==
    SumSeq([i \in 1..Cardinality(DOMAIN total_demand) |->
              total_demand[SortedSeq(DOMAIN total_demand)[i]]])

\* line 196
MaxDemand(total_demand) ==
    IF DOMAIN total_demand # {}
    THEN MaxSeq([i \in 1..Cardinality(DOMAIN total_demand) |->
                   total_demand[SortedSeq(DOMAIN total_demand)[i]]])
    ELSE 0

\* lines 195-198
CapacityError(total_capacity, max_demand) ==
    IF total_capacity < max_demand
    THEN <<<<"capacity", total_capacity, max_demand>>>> ELSE <<>>

\* lines 178-198: the error list
InstanceErrors(gs, ds, ss, ts, total_demand) ==
    (IF gs = <<>> THEN <<<<"no_garage">>>> ELSE <<>>)
    \o (IF ds = <<>> THEN <<<<"no_depot">>>> ELSE <<>>)
    \o (IF ss = <<>> THEN <<<<"no_station">>>> ELSE <<>>)
    \o (IF ts = <<>> THEN <<<<"no_truck">>>> ELSE <<>>)
    \o StockErrors(ds, total_demand, SortedSeq(DOMAIN total_demand))
    \o CapacityError(SumSeq([i \in 1..Len(ts) |-> ts[i].capacity]), MaxDemand(total_demand))

\* line 200
Verdict(errs) == [valid |-> Len(errs) = 0, errors |-> errs]

validate_instance(gs, ds, ss, ts) ==
    Verdict(InstanceErrors(gs, ds, ss, ts, get_total_demand(ss)))

(***************************************************************************)
(* Route assembler.  Every operator that calls instance.distance takes the *)
(* cache dm and returns the cache afterwards, so the calls are threaded in  *)
(* the order the code makes them.                                          *)
(***************************************************************************)
RECURSIVE CallAll(_, _)

PushValue(v, rest) == [dm |-> rest.dm, values |-> <<v>> \o rest.values]

\* r is what the first call returned
CallRest(r, keys) == PushValue(r.value, CallAll(r.dm, keys))

\* instance.distance on each key of a list in turn: the values and the cache
CallAll(dm, keys) ==
    IF keys = <<>> THEN [dm |-> dm, values |-> <<>>]
    ELSE CallRest(distance(garages, depots, stations, dm, Head(keys)), Tail(keys))

\* Variant: the next station served is the first one left in the list.
FirstListed(values) == 1

\* min(list, key=...): the index of the first element with the least key
ArgMinFirst(values) ==
    CHOOSE i \in 1..Len(values) :
        /\ \A j \in 1..Len(values) : values[i] <= values[j]
        /\ \A j \in 1..(i - 1) : values[j] > values[i]

\* the keys min() evaluates at lines 542-548, in list order
DepotKeys(depot, unvisited) ==
    [i \in 1..Len(unvisited) |-> <<DEPOT, depot.id, STATION, unvisited[i].id>>]

RECURSIVE ServeLoop(_, _, _, _, _, _)

\* lines 553-555
PushServed(nearest, delivery_qty, rest) ==
    [dm |-> rest.dm,
     served |-> (IF delivery_qty > 0 THEN <<<<nearest.id, delivery_qty>>>> ELSE <<>>)
                \o rest.served]

\* lines 553-557 and the next iteration
ServeDeliver(dm, depot, product, rd, unvisited, remaining_capacity, nearest, delivery_qty) ==
    PushServed(nearest, delivery_qty,
               ServeLoop(dm, depot, product, rd, RemoveFirst(unvisited, nearest),
                         IF delivery_qty > 0 THEN remaining_capacity - delivery_qty
                         ELSE remaining_capacity))

\* Variant: the whole remaining load is handed to the station.
DeliverAllLoaded(remaining_capacity, demand) == remaining_capacity

\* line 551
DeliveryQty(remaining_capacity, demand) == Min2(remaining_capacity, demand)

\* lines 550-551
ServeNearest(dm, depot, product, rd, unvisited, remaining_capacity, nearest) ==
    ServeDeliver(dm, depot, product, rd, unvisited, remaining_capacity, nearest,
                 DeliveryQty(remaining_capacity, Get(rd, <<nearest.id, product>>, 0)))

\* lines 542-548: c is what the key evaluations returned
ServeStep(c, depot, product, rd, unvisited, remaining_capacity) ==
    ServeNearest(c.dm, depot, product, rd, unvisited, remaining_capacity,
                 unvisited[ArgMinFirst(c.values)])

\* the while loop of _build_mini_route (lines 541-557)
ServeLoop(dm, depot, product, rd, unvisited, remaining_capacity) ==
    IF unvisited = <<>> \/ remaining_capacity <= 0 THEN [dm |-> dm, served |-> <<>>]
    ELSE ServeStep(CallAll(dm, DepotKeys(depot, unvisited)), depot, product, rd, unvisited,
                   remaining_capacity)

\* total_demand of _build_mini_route (lines 522-525)
TotalDemand(product, station_list, rd) ==
    SumSeq([i \in 1..Len(station_list) |-> Get(rd, <<station_list[i].id, product>>, 0)])

\* Variant: the load ignores the truck and the depot.
LoadAllDemand(truck, depot, product, station_list, rd) ==
    TotalDemand(product, station_list, rd)

\* Variant: the truck is always filled.
LoadFullTruck(truck, depot, product, station_list, rd) == truck.capacity

\* load_quantity of _build_mini_route (lines 527-531)
LoadQuantity(truck, depot, product, station_list, rd) ==
    Min2(truck.capacity,
         Min2(TotalDemand(product, station_list, rd), Get(depot.stock, product, 0)))

MiniRoute(d, p, load, served) ==
    [depot_id |-> d, product_id |-> p, load_quantity |-> load, stations |-> served]

\* lines 559-567: l is what the while loop left
MiniFromLoop(l, depot, product, load_quantity) ==
    IF l.served = <<>> THEN [dm |-> l.dm, mini |-> <<>>]
    ELSE [dm |-> l.dm, mini |-> <<MiniRoute(depot.id, product, load_quantity, l.served)>>]

\* lines 533-567
MiniWithLoad(dm, depot, product, station_list, rd, load_quantity) ==
    IF load_quantity <= 0 THEN [dm |-> dm, mini |-> <<>>]
    ELSE MiniFromLoop(ServeLoop(dm, depot, product, rd, station_list, load_quantity),
                      depot, product, load_quantity)

\* _build_mini_route: the Optional[MiniRoute] as a list of at most one MiniRoute
\* (None is <<>>), and the cache afterwards
build_mini_route(dm, truck, depot, product, station_list, rd) ==
    MiniWithLoad(dm, depot, product, station_list, rd,
                 LoadQuantity(truck, depot, product, station_list, rd))

RECURSIVE StationKeys(_, _, _)
\* the arcs of one MiniRoute's station loop (lines 597-602), from prev on
StationKeys(prev_type, prev_id, served) ==
    IF served = <<>> THEN <<>>
    ELSE <<<<prev_type, prev_id, STATION, served[1][1]>>>>
         \o StationKeys(STATION, served[1][1], Tail(served))

\* Variant: the leg after a MiniRoute starts at its depot.
LastStopAtDepot(depot_id, served) == <<DEPOT, depot_id>>

\* prev_type, prev_id after a MiniRoute's station loop
LastStop(depot_id, served) ==
    IF served = <<>> THEN <<DEPOT, depot_id>> ELSE <<STATION, served[Len(served)][1]>>

\* lines 588-592
ToDepotKeys(prev, depot_id) ==
    IF prev[1] # DEPOT \/ prev[2] # depot_id
    THEN <<<<prev[1], prev[2], DEPOT, depot_id>>>> ELSE <<>>

RECURSIVE RouteKeysFrom(_, _, _)
\* the arcs of the loop over mini_routes (lines 586-602) from prev on, and the
\* arc back to the garage (lines 605-608)
RouteKeysFrom(prev, mini_routes, garage_id) ==
    IF mini_routes = <<>> THEN <<<<prev[1], prev[2], GARAGE, garage_id>>>>
    ELSE ToDepotKeys(prev, Head(mini_routes).depot_id)
         \o StationKeys(DEPOT, Head(mini_routes).depot_id, Head(mini_routes).stations)
         \o RouteKeysFrom(LastStop(Head(mini_routes).depot_id, Head(mini_routes).stations),
                          Tail(mini_routes), garage_id)

\* every distance() call of _calculate_route_distance, in order
RouteKeys(route, garage) ==
    <<<<GARAGE, garage.id, DEPOT, route.mini_routes[1].depot_id>>>>
    \o RouteKeysFrom(<<DEPOT, route.mini_routes[1].depot_id>>, route.mini_routes, garage.id)

SumValues(c) == [dm |-> c.dm, value |-> SumSeq(c.values)]

\* _calculate_route_distance: the total and the cache afterwards
calculate_route_distance(dm, route) ==
    IF route.mini_routes = <<>> THEN [dm |-> dm, value |-> 0]
    ELSE SumValues(CallAll(dm, RouteKeys(route, FirstWithId(garages, route.garage_id).value)))

RECURSIVE ChangeoverFrom(_, _)
\* the loop of _calculate_changeover_cost from current_product on
ChangeoverFrom(current_product, mini_routes) ==
    IF mini_routes = <<>> THEN 0
    ELSE IF current_product # Head(mini_routes).product_id
         THEN get_changeover_cost(changeover_costs, current_product,
                                  Head(mini_routes).product_id)
              + ChangeoverFrom(Head(mini_routes).product_id, Tail(mini_routes))
         ELSE ChangeoverFrom(current_product, Tail(mini_routes))

\* the routes built so far for the truck
EarlierRoutes(truck) == SelectSeq(routes, LAMBDA r : r.truck_id = truck.id)

\* Variant: the baseline is the product the truck carried in its last route.
CarriedOverCost(route, truck) ==
    ChangeoverFrom(IF EarlierRoutes(truck) = <<>> THEN truck.initial_product
                   ELSE EarlierRoutes(truck)[Len(EarlierRoutes(truck))].mini_routes[1].product_id,
                   route.mini_routes)

calculate_changeover_cost(route, truck) ==
    ChangeoverFrom(truck.initial_product, route.mini_routes)

CompleteRoute(tid, gid, minis, dist, chg, cost) ==
    [truck_id |-> tid, garage_id |-> gid, mini_routes |-> minis,
     total_distance |-> dist, total_changeover_cost |-> chg, total_cost |-> cost]

\* lines 507-509: d is what _calculate_route_distance returned
CostedRoute(truck, minis, d, chg) ==
    [dm |-> d.dm,
     route |-> CompleteRoute(truck.id, truck.garage_id, minis, d.value, chg, d.value + chg)]

\* lines 499-511: m is what _build_mini_route returned
RouteOfMini(m, truck) ==
    IF m.mini = <<>>
    THEN [dm |-> m.dm, route |-> CompleteRoute(truck.id, truck.garage_id, <<>>, 0, 0, 0)]
    ELSE CostedRoute(truck, m.mini,
             calculate_route_distance(m.dm,
                 CompleteRoute(truck.id, truck.garage_id, m.mini, 0, 0, 0)),
             calculate_changeover_cost(
                 CompleteRoute(truck.id, truck.garage_id, m.mini, 0, 0, 0), truck))

\* _build_complete_route: the route (with no MiniRoute when none was built)
build_complete_route(dm, truck, depot, product, station_list, rd) ==
    RouteOfMini(build_mini_route(dm, truck, depot, product, station_list, rd), truck)

RECURSIVE BuildRoutes(_, _, _, _, _, _)

\* Variant: every route built is stored.
KeepEveryRoute(b, rest) == [dm |-> rest.dm, routes |-> <<b.route>> \o rest.routes]

\* `if route and route.mini_routes: routes.append(route)`
PushRoute(b, rest) ==
    [dm |-> rest.dm,
     routes |-> (IF b.route.mini_routes # <<>> THEN <<b.route>> ELSE <<>>) \o rest.routes]

\* b is what _build_complete_route returned for the truck before truck_list
BuildNext(b, truck_list, lists, depot, product, rd) ==
    PushRoute(b, BuildRoutes(b.dm, truck_list, lists, depot, product, rd))

\* for each truck with a non-empty station list, in truck order: build its route
\* and keep it when it holds a MiniRoute (lines 423-428 and 478-486)
BuildRoutes(dm, truck_list, lists, depot, product, rd) ==
    IF truck_list = <<>> THEN [dm |-> dm, routes |-> <<>>]
    ELSE IF lists[Head(truck_list).id] = <<>>
         THEN BuildRoutes(dm, Tail(truck_list), lists, depot, product, rd)
         ELSE BuildNext(build_complete_route(dm, Head(truck_list), depot, product,
                                             lists[Head(truck_list).id], rd),
                        Tail(truck_list), lists, depot, product, rd)

(***************************************************************************)
(* Greedy fallback assigner.  g = [station_list, truck_list, depot,         *)
(* product, rd] are the arguments of _assign_stations_greedy.               *)
(***************************************************************************)
\* best_assignment None and best_cost inf
NoBest == [found |-> FALSE, cost |-> 0, truck_id |-> 0, station |-> <<>>]

\* Variant: a pair at the same distance as the best one replaces it.
LaterWins(best, distance_cost, truck, station) ==
    IF ~best.found \/ distance_cost <= best.cost
    THEN [found |-> TRUE, cost |-> distance_cost, truck_id |-> truck.id,
          station |-> <<station>>]
    ELSE best

\* lines 464-466
Better(best, distance_cost, truck, station) ==
    IF ~best.found \/ distance_cost < best.cost
    THEN [found |-> TRUE, cost |-> distance_cost, truck_id |-> truck.id,
          station |-> <<station>>]
    ELSE best

RECURSIVE TruckScan(_, _, _, _, _, _, _)

\* lines 459-466: d is what distance() returned for the truck
TruckFits(d, truck_list, truck_load, depot, station, demand, best) ==
    TruckScan(d.dm, Tail(truck_list), truck_load, depot, station, demand,
              Better(best, d.value, Head(truck_list), station))

\* the loop over trucks of lines 457-466 for one station
TruckScan(dm, truck_list, truck_load, depot, station, demand, best) ==
    IF truck_list = <<>> THEN [dm |-> dm, best |-> best]
    ELSE IF truck_load[Head(truck_list).id] + demand <= Head(truck_list).capacity
         THEN TruckFits(distance(garages, depots, stations, dm,
                                 <<DEPOT, depot.id, STATION, station.id>>),
                        truck_list, truck_load, depot, station, demand, best)
         ELSE TruckScan(dm, Tail(truck_list), truck_load, depot, station, demand, best)

RECURSIVE StationScan(_, _, _, _, _, _)

\* t is what the loop over trucks left
AfterTrucks(t, ids, unvisited, truck_load, g) ==
    StationScan(t.dm, ids, unvisited, truck_load, g, t.best)

\* lines 451-466 for the station Head(ids)
ScanDemand(dm, ids, unvisited, truck_load, g, best, station, demand) ==
    IF demand <= 0
    THEN StationScan(dm, Tail(ids), unvisited \ {Head(ids)}, truck_load, g, best)
    ELSE AfterTrucks(TruckScan(dm, g.truck_list, truck_load, g.depot, station, demand, best),
                     Tail(ids), unvisited, truck_load, g)

\* line 450-451
ScanStation(dm, ids, unvisited, truck_load, g, best, station) ==
    ScanDemand(dm, ids, unvisited, truck_load, g, best, station,
               Get(g.rd, <<station.id, g.product>>, 0))

\* the loop over list(unvisited) of lines 449-466; ids is what is left of the
\* list, unvisited the set the loop removes served-out stations from
StationScan(dm, ids, unvisited, truck_load, g, best) ==
    IF ids = <<>> THEN [dm |-> dm, unvisited |-> unvisited, best |-> best]
    ELSE ScanStation(dm, ids, unvisited, truck_load, g, best,
                     FirstWithId(g.station_list, Head(ids)).value)

\* list(unvisited) for a set of station ids: CPython iterates a set of small
\* non-negative ints in ascending order
ListOfIdSet(S) == SortedSeq(S)

RECURSIVE GreedyLoop(_, _, _, _, _)

\* Variant: when no pair fits, the stations left go to the first truck.
AssignLeftovers(s, truck_routes, truck_load, g) ==
    IF s.best.found
    THEN GreedyLoop(s.dm, s.unvisited \ {s.best.station[1].id},
                    [truck_routes EXCEPT ![s.best.truck_id] = Append(@, s.best.station[1])],
                    [truck_load EXCEPT ![s.best.truck_id] =
                        @ + Get(g.rd, <<s.best.station[1].id, g.product>>, 0)],
                    g)
    ELSE [dm |-> s.dm,
          truck_routes |->
              [truck_routes EXCEPT ![g.truck_list[1].id] =
                  @ \o [k \in 1..Cardinality(s.unvisited) |->
                           FirstWithId(g.station_list, ListOfIdSet(s.unvisited)[k]).value]]]

\* lines 468-475: s is what the scan left
AfterScan(s, truck_routes, truck_load, g) ==
    IF s.best.found
    THEN GreedyLoop(s.dm, s.unvisited \ {s.best.station[1].id},
                    [truck_routes EXCEPT ![s.best.truck_id] = Append(@, s.best.station[1])],
                    [truck_load EXCEPT ![s.best.truck_id] =
                        @ + Get(g.rd, <<s.best.station[1].id, g.product>>, 0)],
                    g)
    ELSE [dm |-> s.dm, truck_routes |-> truck_routes]

\* the while loop of _assign_stations_greedy (lines 445-475)
GreedyLoop(dm, unvisited, truck_routes, truck_load, g) ==
    IF unvisited = {} THEN [dm |-> dm, truck_routes |-> truck_routes]
    ELSE AfterScan(StationScan(dm, ListOfIdSet(unvisited), unvisited, truck_load, g, NoBest),
                   truck_routes, truck_load, g)

TruckIds(truck_list) == {truck_list[i].id : i \in 1..Len(truck_list)}

\* lines 441-475: the station lists the greedy loop gives each truck
GreedyAssignment(dm, product, station_list, truck_list, depot, rd) ==
    GreedyLoop(dm, {station_list[i].id : i \in 1..Len(station_list)},
               [t \in TruckIds(truck_list) |-> <<>>], [t \in TruckIds(truck_list) |-> 0],
               [station_list |-> station_list, truck_list |-> truck_list, depot |-> depot,
                product |-> product, rd |-> rd])

\* lines 477-488
RoutesOfAssignment(a, product, truck_list, depot, rd) ==
    BuildRoutes(a.dm, truck_list, a.truck_routes, depot, product, rd)

\* _assign_stations_greedy: the routes and the cache afterwards
assign_stations_greedy(dm, product, station_list, truck_list, depot, rd) ==
    RoutesOfAssignment(GreedyAssignment(dm, product, station_list, truck_list, depot, rd),
                       product, truck_list, depot, rd)

(***************************************************************************)
(* VRP oracle adapter.  The answer of the search is                         *)
(* [solution, lists, arcs]: whether SolveWithParameters found a solution,   *)
(* the station nodes (1..len(stations)) each vehicle visits in order, and   *)
(* the arcs (from_node, to_node) the search evaluated distance_callback on. *)
(***************************************************************************)
\* the distance() call of distance_callback for one arc (lines 340-364)
CallbackKeys(depot, station_list, arc) ==
    IF arc[1] = 0
    THEN IF arc[2] = 0 THEN <<>>
         ELSE <<<<DEPOT, depot.id, STATION, station_list[arc[2]].id>>>>
    ELSE IF arc[2] = 0
         THEN <<<<STATION, station_list[arc[1]].id, DEPOT, depot.id>>>>
         ELSE <<<<STATION, station_list[arc[1]].id, STATION, station_list[arc[2]].id>>>>

RECURSIVE OracleKeys(_, _, _)
OracleKeys(depot, station_list, arcs) ==
    IF arcs = <<>> THEN <<>>
    ELSE CallbackKeys(depot, station_list, Head(arcs))
         \o OracleKeys(depot, station_list, Tail(arcs))

\* Variant: a truck that has a route from an earlier round is not offered again.
UnroutedTrucks(ts, used) ==
    SelectSeq(ts, LAMBDA t : \A i \in 1..Len(routes) : routes[i].truck_id # t.id)

\* lines 318-321
AvailableTrucks(ts, used) == SelectSeq(ts, LAMBDA t : t.id \notin used)

\* Variant: a failed search yields no route.
NoFallback(dm, product, station_list, available_trucks, depot, rd) ==
    [dm |-> dm, routes |-> <<>>]

\* lines 402-407
FallbackOnFailure(dm, product, station_list, available_trucks, depot, rd) ==
    assign_stations_greedy(dm, product, station_list, available_trucks, depot, rd)

\* vehicle_id of a truck of available_trucks
VehicleOf(available_trucks, truck_id) ==
    CHOOSE v \in 1..Len(available_trucks) : available_trucks[v].id = truck_id

\* lines 411-421: the station_list extracted for each truck
ExtractedLists(station_list, available_trucks, oracle) ==
    [t \in TruckIds(available_trucks) |->
        [k \in 1..Len(oracle.lists[VehicleOf(available_trucks, t)]) |->
            station_list[oracle.lists[VehicleOf(available_trucks, t)][k]]]]

\* lines 410-430
ExtractOracleRoutes(dm, product, station_list, available_trucks, depot, rd, oracle) ==
    BuildRoutes(dm, available_trucks, ExtractedLists(station_list, available_trucks, oracle),
                depot, product, rd)

\* lines 400-430: c is the cache the search left
AfterSearch(c, product, station_list, available_trucks, depot, rd, oracle) ==
    IF ~oracle.solution
    THEN FallbackOnFailure(c.dm, product, station_list, available_trucks, depot, rd)
    ELSE ExtractOracleRoutes(c.dm, product, station_list, available_trucks, depot, rd, oracle)

\* lines 323-430
SolveWithTrucks(dm, product, station_list, depot_list, rd, oracle, available_trucks) ==
    IF available_trucks = <<>> THEN [dm |-> dm, routes |-> <<>>]
    ELSE AfterSearch(CallAll(dm, OracleKeys(depot_list[1], station_list, oracle.arcs)),
                     product, station_list, available_trucks, depot_list[1], rd, oracle)

\* _solve_vrp_for_product_ortools: the routes and the cache afterwards
solve_vrp_for_product_ortools(dm, product, station_list, depot_list, rd, used, oracle) ==
    SolveWithTrucks(dm, product, station_list, depot_list, rd, oracle,
                    AvailableTrucks(trucks, used))

(***************************************************************************)
(* Decomposition engine.                                                   *)
(***************************************************************************)
DemandKeys(ss) ==
    UNION {{<<ss[i].id, p>> : p \in DOMAIN ss[i].demand} : i \in 1..Len(ss)}

\* Variant: the demand left by the previous solve() is kept.
KeptRemainingDemand(ss) ==
    IF run = 0
    THEN [k \in DemandKeys(ss) |-> FirstWithId(ss, k[1]).value.demand[k[2]]]
    ELSE remaining_demand

initialize_remaining_demand(ss) ==
    [k \in DemandKeys(ss) |-> FirstWithId(ss, k[1]).value.demand[k[2]]]

\* Variant: only the first station in need is selected.
OnlyFirstNeeding(ss, rd, product) ==
    IF SelectSeq(ss, LAMBDA s : Get(rd, <<s.id, product>>, 0) > 0) = <<>> THEN <<>>
    ELSE <<Head(SelectSeq(ss, LAMBDA s : Get(rd, <<s.id, product>>, 0) > 0))>>

\* lines 265-268
StationsNeeding(ss, rd, product) ==
    SelectSeq(ss, LAMBDA s : Get(rd, <<s.id, product>>, 0) > 0)

\* Variant: the depots holding the product, last one first.
LastSupplierFirst(ds, product) ==
    [i \in 1..Len(SelectSeq(ds, LAMBDA d : Get(d.stock, product, 0) > 0)) |->
        SelectSeq(ds, LAMBDA d : Get(d.stock, product, 0) > 0)
            [Len(SelectSeq(ds, LAMBDA d : Get(d.stock, product, 0) > 0)) + 1 - i]]

\* lines 274-277
DepotsSupplying(ds, product) == SelectSeq(ds, LAMBDA d : Get(d.stock, product, 0) > 0)

RECURSIVE MiniDeliveries(_)
\* the (station_id, qty) pairs of a list of MiniRoutes, in order
MiniDeliveries(mini_routes) ==
    IF mini_routes = <<>> THEN <<>>
    ELSE Head(mini_routes).stations \o MiniDeliveries(Tail(mini_routes))

RECURSIVE Deliveries(_)
\* the (station_id, qty) pairs of a list of routes, in order
Deliveries(rs) ==
    IF rs = <<>> THEN <<>>
    ELSE MiniDeliveries(Head(rs).mini_routes) \o Deliveries(Tail(rs))

\* Variant: a delivery is subtracted from every entry of the station.
DecrementEveryProduct(rd, product, pairs) ==
    [k \in DOMAIN rd |->
        rd[k] - SumSeq([n \in 1..Len(pairs) |-> IF pairs[n][1] = k[1] THEN pairs[n][2] ELSE 0])]

RECURSIVE Decrement(_, _, _)
\* remaining_demand[(station_id, product)] -= qty for each pair
Decrement(rd, product, pairs) ==
    IF pairs = <<>> THEN rd
    ELSE Decrement([rd EXCEPT ![<<pairs[1][1], product>>] = @ - pairs[1][2]], product,
                   Tail(pairs))

\* Variant: the deliveries of a round are not subtracted.
NoUpdate(rd, product, new_routes) == rd

\* lines 295-299
update_demand(rd, product, new_routes) == Decrement(rd, product, Deliveries(new_routes))

(***************************************************************************)
(* Solution validator and metrics.                                         *)
(***************************************************************************)
RECURSIVE MiniRoutesOf(_)
\* every MiniRoute of a solution, in order
MiniRoutesOf(sol) ==
    IF sol = <<>> THEN <<>> ELSE Head(sol).mini_routes \o MiniRoutesOf(Tail(sol))

RECURSIVE DeliveredIn(_, _, _)
\* lines 659-663 for one key of `delivered`
DeliveredIn(mini_routes, station_id, product) ==
    IF mini_routes = <<>> THEN 0
    ELSE (IF Head(mini_routes).product_id = product
          THEN SumSeq([k \in 1..Len(Head(mini_routes).stations) |->
                         IF Head(mini_routes).stations[k][1] = station_id
                         THEN Head(mini_routes).stations[k][2] ELSE 0])
          ELSE 0)
         + DeliveredIn(Tail(mini_routes), station_id, product)

\* delivered.get((station.id, product), 0)
Delivered(sol, station_id, product) == DeliveredIn(MiniRoutesOf(sol), station_id, product)

Abs(x) == IF x < 0 THEN 0 - x ELSE x

\* Variant: only a shortfall counts.
Shortfall(delivered_qty, demand) == delivered_qty < demand

\* abs(delivered_qty - demand) > 0.01
Mismatch(delivered_qty, demand) == 100 * Abs(delivered_qty - demand) > 1

RECURSIVE DemandPairs(_)
\* the (station, product, demand) triples of the loops of lines 665-666
DemandPairs(ss) ==
    IF ss = <<>> THEN <<>>
    ELSE [k \in 1..Cardinality(DOMAIN Head(ss).demand) |->
            <<Head(ss).id, SortedSeq(DOMAIN Head(ss).demand)[k],
              Head(ss).demand[SortedSeq(DOMAIN Head(ss).demand)[k]]>>]
         \o DemandPairs(Tail(ss))

RECURSIVE DemandErrors(_, _)
\* lines 665-672
DemandErrors(sol, pairs) ==
    IF pairs = <<>> THEN <<>>
    ELSE (IF Mismatch(Delivered(sol, pairs[1][1], pairs[1][2]), pairs[1][3])
          THEN <<<<"unmet", pairs[1][1], pairs[1][2],
                   Delivered(sol, pairs[1][1], pairs[1][2]), pairs[1][3]>>>>
          ELSE <<>>)
         \o DemandErrors(sol, Tail(pairs))

RECURSIVE MiniCapacityErrors(_, _)
\* lines 677-682 for one route
MiniCapacityErrors(truck, mini_routes) ==
    IF mini_routes = <<>> THEN <<>>
    ELSE (IF Head(mini_routes).load_quantity > truck.capacity
          THEN <<<<"capacity", truck.id, Head(mini_routes).load_quantity, truck.capacity>>>>
          ELSE <<>>)
         \o MiniCapacityErrors(truck, Tail(mini_routes))

RECURSIVE CapacityErrors(_, _)
\* lines 675-682
CapacityErrors(ts, sol) ==
    IF sol = <<>> THEN <<>>
    ELSE MiniCapacityErrors(FirstWithId(ts, Head(sol).truck_id).value, Head(sol).mini_routes)
         \o CapacityErrors(ts, Tail(sol))

validate_solution(ss, ts, sol) ==
    Verdict(DemandErrors(sol, DemandPairs(ss)) \o CapacityErrors(ts, sol))

RECURSIVE RouteChanges(_)
\* lines 640-643 for one route
RouteChanges(mini_routes) ==
    IF Len(mini_routes) <= 1 THEN 0
    ELSE (IF mini_routes[2].product_id # mini_routes[1].product_id THEN 1 ELSE 0)
         + RouteChanges(Tail(mini_routes))

\* lines 639-643
NumChanges(sol) == SumSeq([i \in 1..Len(sol) |-> RouteChanges(sol[i].mini_routes)])

\* Variant: every route counts as a vehicle.
RoutesAsVehicles(sol) ==
    [num_vehicles |-> Len(sol),
     num_product_changes |-> NumChanges(sol),
     total_changeover_cost |-> SumSeq([i \in 1..Len(sol) |-> sol[i].total_changeover_cost]),
     total_distance |-> SumSeq([i \in 1..Len(sol) |-> sol[i].total_distance]),
     total_cost |-> SumSeq([i \in 1..Len(sol) |-> sol[i].total_distance])
                    + SumSeq([i \in 1..Len(sol) |-> sol[i].total_changeover_cost])]

get_metrics(sol) ==
    [num_vehicles |-> Cardinality({sol[i].truck_id : i \in 1..Len(sol)}),
     num_product_changes |-> NumChanges(sol),
     total_changeover_cost |-> SumSeq([i \in 1..Len(sol) |-> sol[i].total_changeover_cost]),
     total_distance |-> SumSeq([i \in 1..Len(sol) |-> sol[i].total_distance]),
     total_cost |-> SumSeq([i \in 1..Len(sol) |-> sol[i].total_distance])
                    + SumSeq([i \in 1..Len(sol) |-> sol[i].total_changeover_cost])]

(***************************************************************************)
(* The instances and oracle answers the model draws.  Every instance is    *)
(* built with the add_* methods, so ids are 1, 2, ... in list order and a   *)
(* truck's garage is garage 1.  A demand or stock dict names every product; *)
(* a quantity of 0 behaves like a missing key (dict.get(k, 0)).            *)
(***************************************************************************)
\* (0, 1) costs 2, (1, 0) is not listed, (1, 1) is listed with a cost
ChangeoverTable == (<<0, 1>> :> 2) @@ (<<1, 1>> :> 5)

NoGarage == <<>>
OneGarage == add_garage(<<>>, 0, 0)

TruckLists ==
    {<<>>}
    \cup {add_truck(<<>>, c, 1, 0) : c \in Capacities}
    \cup {add_truck(add_truck(<<>>, c[1], 1, 0), c[2], 1, 1) :
            c \in Capacities \X Capacities}
    \cup {add_truck(add_truck(<<>>, 0, 1, 0), MaxQty + 1, 1, 1)}

StockDict(s0, s1) == (0 :> s0) @@ (1 :> s1)

FirstDepots == {add_depot(<<>>, 3, 0, StockDict(s0, s1)) : s0 \in Stocks, s1 \in {0, MaxQty}}

DepotLists ==
    {<<>>} \cup FirstDepots
    \cup {add_depot(ds, 0, 4, StockDict(2 * MaxQty, MaxQty)) : ds \in FirstDepots}

\* product 1 is asked for by station 1 only, one unit at most
FirstDemands == {(0 :> q) @@ (1 :> r) : q \in Quantities, r \in {0, 1}}
SecondDemands == {(0 :> q) @@ (1 :> 0) : q \in Quantities \ {0}}

FirstStations == {add_station(<<>>, 3, 4, d) : d \in FirstDemands}

\* station 2 is where station 1 is, or at the garage
StationLists ==
    {<<>>} \cup FirstStations
    \cup UNION {{add_station(ss, xy[1], xy[2], d) : xy \in {<<3, 4>>, <<0, 0>>},
                                                  d \in SecondDemands} :
                ss \in FirstStations}

Instances(garage_lists, depot_lists, station_lists, truck_lists) ==
    {[garages |-> g, depots |-> d, stations |-> s, trucks |-> t] :
        g \in garage_lists, d \in depot_lists, s \in station_lists, t \in truck_lists}

\* injective sequences over the subsets of S
InjSeqs(S) ==
    UNION {{q \in [1..n -> S] : \A i, j \in 1..n : i # j => q[i] # q[j]} :
           n \in 0..Cardinality(S)}

\* one list of station nodes per vehicle, no node in two lists
OracleLists(n, nv) ==
    {l \in [1..nv -> InjSeqs(1..n)] :
        \A v, w \in 1..nv : v # w => Range(l[v]) \cap Range(l[w]) = {}}

\* the search evaluates the transit callback on every arc
AllArcs(n) == [k \in 1..((n + 1) * (n + 1)) |-> <<(k - 1) \div (n + 1), (k - 1) % (n + 1)>>]

\* the search was not run
NotCalled == [solution |-> FALSE, lists |-> <<>>, arcs |-> <<>>]

OracleAnswers(n, nv) ==
    {[solution |-> FALSE, lists |-> [v \in 1..nv |-> <<>>], arcs |-> AllArcs(n)]}
    \cup {[solution |-> TRUE, lists |-> l, arcs |-> AllArcs(n)] : l \in OracleLists(n, nv)}

(***************************************************************************)
(* State machine: solve() called on a solver built for an instance, then   *)
(* get_metrics() and validate_solution().                                  *)
(***************************************************************************)
EmptyCache == <<>>

\* _assign_stations_greedy has not been called
NoGreedyCall ==
    [called |-> FALSE, product |-> 0, station_list |-> <<>>, truck_list |-> <<>>,
     depot |-> None, rd |-> <<>>, truck_routes |-> <<>>, routes |-> <<>>]

\* _build_mini_route has not been called
NoMiniCall ==
    [called |-> FALSE, truck |-> None, depot |-> None, product |-> 0, station_list |-> <<>>,
     rd |-> <<>>, mini |-> <<>>]

NoVerdict == [valid |-> FALSE, errors |-> <<>>]

\* MPVRPCCInstance built by add_*, and MPVRPCCORToolsSolver.__init__
InitFrom(instances, solutions, start_pc) ==
    /\ \E i \in instances :
        /\ garages = i.garages
        /\ depots = i.depots
        /\ stations = i.stations
        /\ trucks = i.trucks
        /\ products = ProductsOf(i.depots, i.stations)
    /\ changeover_costs = ChangeoverTable
    /\ distance_matrix = EmptyCache
    /\ solution \in solutions
    /\ routes = <<>>
    /\ remaining_demand = <<>>
    /\ todo = <<>>
    /\ product_routes = <<>>
    /\ rounds = <<>>
    /\ run = 0
    /\ first_solution = [routes |-> <<>>, rounds |-> <<>>]
    /\ valid = FALSE
    /\ errors = <<>>
    /\ sol_result = NoVerdict
    /\ metrics = get_metrics(<<>>)
    /\ dist_call = [key |-> <<>>, hit |-> FALSE, exc |-> None, value |-> 0, calls |-> 0]
    /\ used_trucks = {}
    /\ cost_call = [from |-> 0, to |-> 0, value |-> 0, costs |-> <<>>]
    /\ mini_call = NoMiniCall
    /\ greedy_call = NoGreedyCall
    /\ pc = start_pc

Init == InitFrom(Instances({OneGarage}, DepotLists, StationLists, TruckLists), {<<>>}, "built")

\* solve() up to the for loop of _solve_product_by_product (lines 228-260)
SolveEnter ==
    /\ routes' = <<>>
    /\ remaining_demand' = initialize_remaining_demand(stations)
    /\ todo' = SortedSeq(products)
    /\ rounds' = <<>>
    /\ used_trucks' = {}
    /\ run' = run + 1
    /\ pc' = "loop"
    /\ UNCHANGED <<instance_vars, distance_matrix, solution, product_routes, first_solution,
                   report_vars, query_vars>>

SolveBegin ==
    /\ pc = "built"
    /\ SolveEnter

RoundEntry(product, kind, depot_id, station_ids, oracle) ==
    [product |-> product, kind |-> kind, depot_id |-> depot_id,
     station_ids |-> station_ids, oracle |-> oracle]

\* why the iteration `continue`s (lines 270-271 and 279-280)
SkipKind(stations_needing) == IF stations_needing = <<>> THEN "no_station" ELSE "no_depot"

\* an iteration of the for loop that ends at a `continue`
SkipProduct ==
    /\ pc = "loop"
    /\ todo # <<>>
    /\ \/ StationsNeeding(stations, remaining_demand, Head(todo)) = <<>>
       \/ DepotsSupplying(depots, Head(todo)) = <<>>
    /\ todo' = Tail(todo)
    /\ rounds' = Append(rounds,
                        RoundEntry(Head(todo),
                                   SkipKind(StationsNeeding(stations, remaining_demand,
                                                           Head(todo))),
                                   0, <<>>, NotCalled))
    /\ UNCHANGED <<instance_vars, distance_matrix, solution, routes, remaining_demand,
                   product_routes, pc, run, first_solution, used_trucks, report_vars,
                   query_vars>>

\* what the search may answer in this round: anything on a first run, and on
\* a later run what it answered in the same round of the first run
OracleChoices(n, nv) ==
    IF nv = 0 THEN {NotCalled}
    ELSE IF /\ run >= 2
            /\ Len(rounds) < Len(first_solution.rounds)
            /\ first_solution.rounds[Len(rounds) + 1].kind = "round"
            /\ Len(first_solution.rounds[Len(rounds) + 1].station_ids) = n
         THEN {first_solution.rounds[Len(rounds) + 1].oracle}
         ELSE OracleAnswers(n, nv)

\* lines 283-293: r is what _solve_vrp_for_product_ortools returned
RoundResult(r, product, stations_needing, depots_supplying, oracle) ==
    /\ product_routes' = r.routes
    /\ routes' = routes \o r.routes
    /\ distance_matrix' = r.dm
    /\ rounds' = Append(rounds,
                        RoundEntry(product, "round", depots_supplying[1].id,
                                   [i \in 1..Len(stations_needing) |-> stations_needing[i].id],
                                   oracle))

RoundWith(product, stations_needing, depots_supplying) ==
    \E oracle \in OracleChoices(Len(stations_needing),
                                Len(AvailableTrucks(trucks, used_trucks))) :
        RoundResult(solve_vrp_for_product_ortools(distance_matrix, product, stations_needing,
                                                  depots_supplying, remaining_demand,
                                                  used_trucks,
                                                  oracle),
                    product, stations_needing, depots_supplying, oracle)

\* an iteration of the for loop up to routes.extend (lines 260-293)
RoundSolve ==
    /\ pc = "loop"
    /\ todo # <<>>
    /\ StationsNeeding(stations, remaining_demand, Head(todo)) # <<>>
    /\ DepotsSupplying(depots, Head(todo)) # <<>>
    /\ RoundWith(Head(todo), StationsNeeding(stations, remaining_demand, Head(todo)),
                 DepotsSupplying(depots, Head(todo)))
    /\ pc' = "update"
    /\ UNCHANGED <<instance_vars, solution, remaining_demand, todo, run, first_solution,
                   used_trucks, report_vars, query_vars>>

\* the rest of the iteration (lines 295-299)
UpdateDemand ==
    /\ pc = "update"
    /\ remaining_demand' = update_demand(remaining_demand, Head(todo), product_routes)
    /\ todo' = Tail(todo)
    /\ pc' = "loop"
    /\ UNCHANGED <<instance_vars, distance_matrix, solution, routes, product_routes, rounds,
                   run, first_solution, used_trucks, report_vars, query_vars>>

\* lines 303 and 239-246
SolveReturn ==
    /\ pc = "loop"
    /\ todo = <<>>
    /\ solution' = routes
    /\ first_solution' = IF run = 1 THEN [routes |-> routes, rounds |-> rounds]
                         ELSE first_solution
    /\ pc' = "solved"
    /\ UNCHANGED <<instance_vars, distance_matrix, routes, remaining_demand, todo,
                   product_routes, rounds, run, used_trucks, report_vars, query_vars>>

GetMetrics ==
    /\ pc = "solved"
    /\ metrics' = get_metrics(solution)
    /\ pc' = "measured"
    /\ UNCHANGED <<instance_vars, distance_matrix, solver_vars, valid, errors, sol_result,
                   query_vars>>

ValidateSolution ==
    /\ pc = "measured"
    /\ sol_result' = validate_solution(stations, trucks, solution)
    /\ pc' = "done"
    /\ UNCHANGED <<instance_vars, distance_matrix, solver_vars, valid, errors, metrics,
                   query_vars>>

Next ==
    \/ SolveBegin
    \/ SkipProduct
    \/ RoundSolve
    \/ UpdateDemand
    \/ SolveReturn
    \/ GetMetrics
    \/ ValidateSolution

Spec == Init /\ [][Next]_vars

(***************************************************************************)
(* The driver run_test_process (src/src/test_ortools.py): validate the     *)
(* instance, stop if it is invalid, otherwise build a solver and solve.    *)
(***************************************************************************)
\* Variant: the driver goes on whatever the verdict.
AlwaysProceed(v) == TRUE

\* `if not valid: ... return`
MayProceed(v) == v

RunValidate ==
    /\ pc = "start"
    /\ valid' = validate_instance(garages, depots, stations, trucks).valid
    /\ errors' = validate_instance(garages, depots, stations, trucks).errors
    /\ pc' = "validated"
    /\ UNCHANGED <<instance_vars, distance_matrix, solver_vars, sol_result, metrics, query_vars>>

\* the errors are printed and the function returns
RunReject ==
    /\ pc = "validated"
    /\ ~MayProceed(valid)
    /\ pc' = "rejected"
    /\ UNCHANGED <<instance_vars, distance_matrix, solver_vars, report_vars, query_vars>>

\* solver = MPVRPCCORToolsSolver(instance)
RunSolve ==
    /\ pc = "validated"
    /\ MayProceed(valid)
    /\ pc' = "built"
    /\ UNCHANGED <<instance_vars, distance_matrix, solver_vars, report_vars, query_vars>>

InitRun ==
    InitFrom(Instances({NoGarage, OneGarage}, DepotLists, StationLists, TruckLists), {<<>>},
             "start")

NextRun ==
    \/ RunValidate
    \/ RunReject
    \/ RunSolve
    \/ SolveBegin
    \/ SkipProduct
    \/ RoundSolve
    \/ UpdateDemand
    \/ SolveReturn
    \/ GetMetrics
    \/ ValidateSolution

SpecRun == InitRun /\ [][NextRun]_vars

(***************************************************************************)
(* solve() called again on the same solver object, the search answering    *)
(* each round as it did in the first run.                                  *)
(***************************************************************************)
\* How many times solve() is called on one solver.
MaxRuns == 2

SolveAgain ==
    /\ pc = "done"
    /\ run < MaxRuns
    /\ SolveEnter

NextTwice ==
    \/ SolveBegin
    \/ SkipProduct
    \/ RoundSolve
    \/ UpdateDemand
    \/ SolveReturn
    \/ GetMetrics
    \/ ValidateSolution
    \/ SolveAgain

SpecTwice == Init /\ [][NextTwice]_vars

(***************************************************************************)
(* instance.distance called by any caller, in any order, with ids that     *)
(* exist and ids that do not.                                              *)
(***************************************************************************)
\* How many distance() calls a behaviour makes.
MaxCalls == 3

LocationTypes == {GARAGE, DEPOT, STATION}

DistanceKeys == {<<t[1], i[1], t[2], i[2]>> : t \in LocationTypes \X LocationTypes,
                                             i \in {1, 2} \X {1, 2}}

\* r is what distance() returned
DistanceResult(r, key) ==
    /\ distance_matrix' = r.dm
    /\ dist_call' = [key |-> key, hit |-> key \in DOMAIN distance_matrix, exc |-> r.exc,
                     value |-> r.value, calls |-> dist_call.calls + 1]

DistanceCall ==
    /\ dist_call.calls < MaxCalls
    /\ \E key \in DistanceKeys :
        DistanceResult(distance(garages, depots, stations, distance_matrix, key), key)
    /\ UNCHANGED <<instance_vars, solver_vars, report_vars, pc, cost_call, mini_call,
                   greedy_call>>

\* one garage, one or two depots, two stations, one at the garage's place
InitDist ==
    InitFrom(Instances({OneGarage},
                       {add_depot(<<>>, 3, 0, StockDict(MaxQty, 0)),
                        add_depot(add_depot(<<>>, 3, 0, StockDict(MaxQty, 0)), 0, 4,
                                  StockDict(MaxQty, 0))},
                       {add_station(add_station(<<>>, 3, 4, (0 :> 1) @@ (1 :> 0)), 0, 0,
                                    (0 :> 1) @@ (1 :> 0))},
                       {<<>>}),
             {<<>>}, "built")

NextDist == DistanceCall

SpecDist == InitDist /\ [][NextDist]_vars

(***************************************************************************)
(* get_metrics() and validate_solution() on any solution held by the       *)
(* solver: one or two routes of the instance's trucks, whatever they load   *)
(* and deliver.                                                            *)
(***************************************************************************)
SomeDeliveries ==
    {<<>>}
    \cup {<<<<sid, q>>>> : sid \in {1, 2}, q \in 1..MaxQty}
    \cup {<<<<1, q[1]>>, <<2, q[2]>>>> : q \in (1..MaxQty) \X (1..MaxQty)}

SomeMiniRoutes ==
    {MiniRoute(1, p, load, served) :
        p \in Products, load \in {1, MaxQty + 2}, served \in SomeDeliveries}

\* the cost fields are any numbers with total_cost = distance + changeover,
\* as _build_complete_route leaves them
SomeRoutes ==
    {CompleteRoute(t, 1, <<m>>, m.load_quantity, m.product_id,
                   m.load_quantity + m.product_id) : t \in {1, 2}, m \in SomeMiniRoutes}
    \cup {CompleteRoute(t, 1, <<m, MiniRoute(1, 1, MaxQty + 2, <<<<1, 1>>>>)>>,
                        m.load_quantity, 1 - m.product_id, m.load_quantity + 1 - m.product_id) :
            t \in {1, 2}, m \in SomeMiniRoutes}

SomeSolutions ==
    {<<>>} \cup {<<r>> : r \in SomeRoutes}
    \cup {<<r, CompleteRoute(2, 1, <<MiniRoute(1, 0, 1, <<<<2, 1>>>>)>>, 1, 1, 2)>> :
            r \in SomeRoutes}

InitVS ==
    InitFrom(Instances({OneGarage}, {add_depot(<<>>, 3, 0, StockDict(2 * MaxQty, MaxQty))},
                       {add_station(add_station(<<>>, 3, 4, d), 0, 0, (0 :> 1) @@ (1 :> 0)) :
                           d \in FirstDemands},
                       {add_truck(add_truck(<<>>, 1, 1, 0), MaxQty + 1, 1, 1)}),
             SomeSolutions, "solved")

NextVS ==
    \/ GetMetrics
    \/ ValidateSolution

SpecVS == InitVS /\ [][NextVS]_vars

(***************************************************************************)
(* set_changeover_costs and get_changeover_cost called by any caller: any  *)
(* table over the ordered pairs of products, any pair asked for.           *)
(***************************************************************************)
\* Largest cost a table lists.
MaxCost == 2

CostTables == UNION {[S -> 1..MaxCost] : S \in SUBSET (Products \X Products)}

SetChangeoverCosts ==
    /\ \E costs \in CostTables : changeover_costs' = costs
    /\ UNCHANGED <<garages, depots, stations, trucks, products, distance_matrix, solver_vars,
                   report_vars, pc, query_vars>>

ChangeoverCall ==
    /\ \E p \in Products, q \in Products :
          cost_call' = [from |-> p, to |-> q,
                        value |-> get_changeover_cost(changeover_costs, p, q),
                        costs |-> changeover_costs]
    /\ UNCHANGED <<instance_vars, distance_matrix, solver_vars, report_vars, pc, dist_call,
                   mini_call, greedy_call>>

NextCost ==
    \/ SetChangeoverCosts
    \/ ChangeoverCall

SpecCost == InitDist /\ [][NextCost]_vars

(***************************************************************************)
(* solve() is sequential code: the statements after the search of a round  *)
(* and the return after the loop are executed once they are reached.  The  *)
(* search itself is given a time limit and is not assumed to be fair.      *)
(***************************************************************************)
SpecFair == Init /\ [][Next]_vars /\ WF_vars(UpdateDemand) /\ WF_vars(SolveReturn)

(***************************************************************************)
(* _build_mini_route called by any caller: any truck, any depot of the     *)
(* instance, any product, the stations of the instance in any number and   *)
(* order, and any remaining demand.                                        *)
(***************************************************************************)
\* two depots, two stations; station 2 is where station 1 is, or at the garage
InitMini ==
    InitFrom(Instances({OneGarage}, {ds \in DepotLists : Len(ds) = 2},
                       {add_station(add_station(<<>>, 3, 4, (0 :> 1) @@ (1 :> 0)), xy[1], xy[2],
                                    (0 :> 1) @@ (1 :> 0)) : xy \in {<<3, 4>>, <<0, 0>>}},
                       {<<>>}),
             {<<>>}, "built")

MiniResult(r, truck, depot, product, station_list, rd) ==
    /\ mini_call' = [called |-> TRUE, truck |-> truck, depot |-> depot, product |-> product,
                     station_list |-> station_list, rd |-> rd, mini |-> r.mini]
    /\ distance_matrix' = r.dm

\* one call on the solver as constructed
MiniCall ==
    /\ ~mini_call.called
    /\ \E cap \in 0..(MaxQty + 1), i \in 1..Len(depots), product \in Products,
          order \in InjSeqs(1..Len(stations)) :
          \E rd \in [{<<sid, product>> : sid \in 1..Len(stations)} -> Quantities] :
              MiniResult(build_mini_route(distance_matrix, Truck(1, cap, 1, 0), depots[i],
                                          product,
                                          [k \in 1..Len(order) |-> stations[order[k]]], rd),
                         Truck(1, cap, 1, 0), depots[i], product,
                         [k \in 1..Len(order) |-> stations[order[k]]], rd)
    /\ UNCHANGED <<instance_vars, solver_vars, report_vars, pc, dist_call, cost_call,
                   greedy_call>>

SpecMini == InitMini /\ [][MiniCall]_vars

(***************************************************************************)
(* _assign_stations_greedy called by any caller: any product, the stations *)
(* of the instance in any number and order, one or two trucks of any       *)
(* capacity, any depot of the instance and any remaining demand.           *)
(***************************************************************************)
GreedyFleets ==
    {add_truck(<<>>, c, 1, 0) : c \in 0..(MaxQty + 1)}
    \cup {add_truck(add_truck(<<>>, c[1], 1, 0), c[2], 1, 1) :
            c \in (0..(MaxQty + 1)) \X (0..(MaxQty + 1))}

\* a is what the while loop left, r what the loop of lines 477-488 built
GreedyResult(a, r, product, station_list, truck_list, depot, rd) ==
    /\ greedy_call' = [called |-> TRUE, product |-> product, station_list |-> station_list,
                       truck_list |-> truck_list, depot |-> depot, rd |-> rd,
                       truck_routes |-> a.truck_routes, routes |-> r.routes]
    /\ distance_matrix' = r.dm

GreedyBuilt(a, product, station_list, truck_list, depot, rd) ==
    GreedyResult(a, RoutesOfAssignment(a, product, truck_list, depot, rd),
                 product, station_list, truck_list, depot, rd)

\* one call on the solver as constructed
GreedyCall ==
    /\ ~greedy_call.called
    /\ \E truck_list \in GreedyFleets, i \in 1..Len(depots), product \in Products,
          order \in InjSeqs(1..Len(stations)) :
          \E rd \in [{<<sid, product>> : sid \in 1..Len(stations)} -> Quantities] :
              GreedyBuilt(GreedyAssignment(distance_matrix, product,
                                           [k \in 1..Len(order) |-> stations[order[k]]],
                                           truck_list, depots[i], rd),
                          product, [k \in 1..Len(order) |-> stations[order[k]]],
                          truck_list, depots[i], rd)
    /\ UNCHANGED <<instance_vars, solver_vars, report_vars, pc, dist_call, cost_call,
                   mini_call>>

SpecGreedy == InitMini /\ [][GreedyCall]_vars

(***************************************************************************)
(* Properties.                                                             *)
(***************************************************************************)
FinalPcs == {"solved", "measured", "done"}

\* the demand station k[1] declares for product k[2]
InitialDemand(k) == FirstWithId(stations, k[1]).value.demand[k[2]]

TotalDemandOf(p) == SumSeq([i \in 1..Len(stations) |-> Get(stations[i].demand, p, 0)])

TotalStockOf(p) == SumSeq([i \in 1..Len(depots) |-> Get(depots[i].stock, p, 0)])

\* every MiniRoute of a list of routes, with the truck of its route
MinisWithTruck(rs) ==
    UNION {{[truck_id |-> rs[i].truck_id, mini |-> rs[i].mini_routes[j]] :
              j \in 1..Len(rs[i].mini_routes)} : i \in 1..Len(rs)}

\* the quantity the routes rs deliver to station sid for product p
QuantityTo(rs, sid, p) ==
    SumSeq([i \in 1..Len(rs) |->
        SumSeq([j \in 1..Len(rs[i].mini_routes) |->
            IF rs[i].mini_routes[j].product_id # p THEN 0
            ELSE SumSeq([k \in 1..Len(rs[i].mini_routes[j].stations) |->
                    IF rs[i].mini_routes[j].stations[k][1] = sid
                    THEN rs[i].mini_routes[j].stations[k][2] ELSE 0])])])

ErrorsOfKind(errs, kind) == {i \in 1..Len(errs) : errs[i][1] = kind}

\* C1: demand is never over-delivered.  At every point of solve(), whatever
\* station lists the search or the fallback produced, every remaining demand
\* is >= 0 and the routes built so far deliver to each (station, product) at
\* most the demand the station declares; between two rounds the remaining
\* demand is the declared demand less what was delivered.
C1_NeverOverDelivered ==
    /\ \A k \in DOMAIN remaining_demand : remaining_demand[k] >= 0
    /\ \A k \in DemandKeys(stations) : QuantityTo(routes, k[1], k[2]) <= InitialDemand(k)
    /\ pc = "loop" =>
         \A k \in DemandKeys(stations) :
             remaining_demand[k] = InitialDemand(k) - QuantityTo(routes, k[1], k[2])

\* a round has served one pair in full and another in part
C1_Witness ==
    /\ pc = "loop"
    /\ \E k \in DemandKeys(stations) : InitialDemand(k) > 0 /\ remaining_demand[k] = 0
    /\ \E k \in DemandKeys(stations) :
          remaining_demand[k] > 0 /\ remaining_demand[k] < InitialDemand(k)

\* the demand, in round e, of the station at node n
RoundDemandOf(e, n) == FirstWithId(stations, e.station_ids[n]).value.demand[e.product]

RoundStations(e) ==
    [n \in 1..Len(e.station_ids) |-> FirstWithId(stations, e.station_ids[n]).value]

\* the search's lists hold every selected station once and no list asks for
\* more than its truck carries
CapacityRespectingPartition(e) ==
    /\ \A n \in 1..Len(e.station_ids) :
          \E v \in 1..Len(trucks) : n \in Range(e.oracle.lists[v])
    /\ \A v \in 1..Len(trucks) :
          SumSeq([k \in 1..Len(e.oracle.lists[v]) |-> RoundDemandOf(e, e.oracle.lists[v][k])])
              <= trucks[v].capacity

\* the station lists the greedy loop makes in round e
GreedyListsOf(e) ==
    GreedyAssignment(EmptyCache, e.product, RoundStations(e), trucks,
                     FirstWithId(depots, e.depot_id).value,
                     [k \in DemandKeys(stations) |-> InitialDemand(k)]).truck_routes

GreedyAssignsAll(e) ==
    /\ trucks # <<>>
    /\ \A n \in 1..Len(e.station_ids) :
          \E t \in DOMAIN GreedyListsOf(e) :
              \E k \in 1..Len(GreedyListsOf(e)[t]) :
                  GreedyListsOf(e)[t][k].id = e.station_ids[n]

RoundSucceeded(e) ==
    e.kind = "round" =>
        IF e.oracle.solution THEN CapacityRespectingPartition(e) ELSE GreedyAssignsAll(e)

\* solve() has returned for an instance validate_instance accepts, and every
\* round had a capacity-respecting partition or a fallback assigning all
ValidatedAndSucceeded ==
    /\ pc \in FinalPcs
    /\ validate_instance(garages, depots, stations, trucks).valid
    /\ \A i \in 1..Len(rounds) : RoundSucceeded(rounds[i])

FullyDelivered ==
    /\ \A k \in DemandKeys(stations) : QuantityTo(solution, k[1], k[2]) = InitialDemand(k)
    /\ pc = "done" => ErrorsOfKind(sol_result.errors, "unmet") = {}

\* the depot a round draws from holds the whole demand of the product
FirstDepotSuffices ==
    \A p \in products :
        TotalDemandOf(p) > 0 =>
            /\ DepotsSupplying(depots, p) # <<>>
            /\ DepotsSupplying(depots, p)[1].stock[p] >= TotalDemandOf(p)

\* C2 as stated: for every instance validate_instance accepts, if every round
\* has a capacity-respecting partition from the search or a fallback that
\* assigns every selected station, every declared demand is delivered exactly
\* and validate_solution reports no unmet demand.
C2_AsStated == ValidatedAndSucceeded => FullyDelivered

\* C2 (amended): the same, for instances where, for each product, the first
\* depot with positive stock of it (the only depot a round draws from) holds
\* at least the product's total demand.
C2_FullDelivery == ValidatedAndSucceeded /\ FirstDepotSuffices => FullyDelivered

\* two stations and two products, one round answered by the search and one by
\* the fallback, all delivered
C2_Witness ==
    /\ pc = "done"
    /\ ValidatedAndSucceeded /\ FirstDepotSuffices
    /\ Len(stations) = 2
    /\ \E i, j \in 1..Len(rounds) :
          /\ rounds[i].kind = "round" /\ rounds[i].oracle.solution
          /\ rounds[j].kind = "round" /\ ~rounds[j].oracle.solution
    /\ sol_result.valid

\* C3: every MiniRoute built loads at most the capacity of its route's truck
\* and at most the stock of its product at its depot, and validate_solution
\* reports no capacity violation for what solve() returned.
C3_CapacityInvariant ==
    /\ \A b \in MinisWithTruck(routes) \cup MinisWithTruck(solution) :
          /\ b.mini.load_quantity <= FirstWithId(trucks, b.truck_id).value.capacity
          /\ b.mini.load_quantity
                <= Get(FirstWithId(depots, b.mini.depot_id).value.stock, b.mini.product_id, 0)
    /\ pc = "done" => ErrorsOfKind(sol_result.errors, "capacity") = {}

\* a truck too small for its stations left full, and another loaded all the
\* depot had
C3_Witness ==
    /\ pc = "done"
    /\ \E b \in MinisWithTruck(solution) :
          /\ b.mini.load_quantity = FirstWithId(trucks, b.truck_id).value.capacity
          /\ TotalDemandOf(b.mini.product_id) > b.mini.load_quantity
    /\ \E b \in MinisWithTruck(solution) :
          /\ b.mini.load_quantity
                = FirstWithId(depots, b.mini.depot_id).value.stock[b.mini.product_id]
          /\ b.mini.load_quantity < FirstWithId(trucks, b.truck_id).value.capacity

DeliveredBy(mini) == SumSeq([k \in 1..Len(mini.stations) |-> mini.stations[k][2]])

\* C4: for every MiniRoute built, the load is at most the sum of its delivered
\* quantities, that sum is at most the load, and every listed quantity is > 0.
C4_LoadEqualsDeliveries ==
    \A b \in MinisWithTruck(routes) \cup MinisWithTruck(solution) :
        /\ b.mini.load_quantity <= DeliveredBy(b.mini)
        /\ DeliveredBy(b.mini) <= b.mini.load_quantity
        /\ \A k \in 1..Len(b.mini.stations) : b.mini.stations[k][2] > 0

\* a MiniRoute serving two stations, the second one in part
C4_Witness ==
    \E b \in MinisWithTruck(routes) :
        /\ Len(b.mini.stations) = 2
        /\ b.mini.stations[2][2]
              < InitialDemand(<<b.mini.stations[2][1], b.mini.product_id>>)

\* the routes the greedy fallback gives standalone for the round about to run
RoundFallback ==
    assign_stations_greedy(EmptyCache, Head(todo),
                           StationsNeeding(stations, remaining_demand, Head(todo)), trucks,
                           DepotsSupplying(depots, Head(todo))[1], remaining_demand).routes

\* a round in which the search was run and reported no solution
OracleFailedStep ==
    /\ pc = "loop"
    /\ pc' = "update"
    /\ trucks # <<>>
    /\ ~rounds'[Len(rounds')].oracle.solution

FallbackTakesOver ==
    OracleFailedStep => product_routes' = RoundFallback /\ routes' = routes \o RoundFallback

TwoStationsOneTruck ==
    /\ Len(StationsNeeding(stations, remaining_demand, Head(todo))) = 2
    /\ Len(trucks) = 1
    /\ trucks[1].capacity
          >= TotalDemand(Head(todo), StationsNeeding(stations, remaining_demand, Head(todo)),
                         remaining_demand)

OneRouteServesBoth ==
    /\ Len(product_routes') = 1
    /\ Len(product_routes'[1].mini_routes) = 1
    /\ {product_routes'[1].mini_routes[1].stations[k][1] :
          k \in 1..Len(product_routes'[1].mini_routes[1].stations)}
       = {StationsNeeding(stations, remaining_demand, Head(todo))[n].id : n \in {1, 2}}

\* C5 as stated: when the search reports no solution, the round's routes are
\* exactly the routes of the greedy fallback run standalone on the same
\* product, stations, trucks, first depot and remaining demand, and the round
\* goes on; with 2 stations and 1 truck of sufficient capacity the round
\* yields one CompleteRoute serving both stations.
C5_AsStated ==
    [][/\ FallbackTakesOver
       /\ OracleFailedStep /\ TwoStationsOneTruck => OneRouteServesBoth]_vars

\* C5 (amended): the same, the one route serving both stations being promised
\* when the round's depot also holds the two stations' demand.
C5_FallbackEquivalence ==
    [][/\ FallbackTakesOver
       /\ (/\ OracleFailedStep
           /\ TwoStationsOneTruck
           /\ DepotsSupplying(depots, Head(todo))[1].stock[Head(todo)]
                 >= TotalDemand(Head(todo),
                                StationsNeeding(stations, remaining_demand, Head(todo)),
                                remaining_demand))
          => OneRouteServesBoth]_vars

\* the search failed for two stations and one truck, and the round has one
\* route serving both
C5_Witness ==
    /\ pc = "update"
    /\ Len(trucks) = 1
    /\ rounds[Len(rounds)].kind = "round"
    /\ ~rounds[Len(rounds)].oracle.solution
    /\ Len(rounds[Len(rounds)].station_ids) = 2
    /\ Len(product_routes) = 1
    /\ Len(product_routes[1].mini_routes[1].stations) = 2

\* C6: a second solve() on the same solver, the search answering every round
\* as in the first run, starts from the declared demands again, goes through
\* the same rounds and returns the same list of routes, costs included.
C6_Determinism ==
    /\ (run >= 2 /\ pc = "loop" /\ rounds = <<>>) =>
          \A k \in DemandKeys(stations) : remaining_demand[k] = InitialDemand(k)
    /\ (run >= 2 /\ pc \in FinalPcs) =>
          /\ solution = first_solution.routes
          /\ rounds = first_solution.rounds

\* a second run has returned two routes, one round by the search, one by the
\* fallback
C6_Witness ==
    /\ run = 2
    /\ pc = "done"
    /\ Len(solution) >= 2
    /\ \E i, j \in 1..Len(rounds) :
          /\ rounds[i].kind = "round" /\ rounds[i].oracle.solution
          /\ rounds[j].kind = "round" /\ ~rounds[j].oracle.solution

DemandProducts == UNION {DOMAIN stations[i].demand : i \in 1..Len(stations)}

LargestDemand ==
    IF DemandProducts = {} THEN 0
    ELSE CHOOSE m \in {TotalDemandOf(p) : p \in DemandProducts} :
            \A p \in DemandProducts : TotalDemandOf(p) <= m

OneIf(b) == IF b THEN 1 ELSE 0

\* C7: validate_instance returns (valid, errors) with valid true iff errors
\* is empty, and errors holds one entry for each condition that holds and no
\* other entry: no garages; no depots; no stations; no trucks; for a product
\* with station demand, total depot stock < total station demand; total truck
\* capacity < the largest per-product total demand.
C7_ValidateInstance ==
    pc # "start" =>
        /\ valid <=> errors = <<>>
        /\ Cardinality(ErrorsOfKind(errors, "no_garage")) = OneIf(garages = <<>>)
        /\ Cardinality(ErrorsOfKind(errors, "no_depot")) = OneIf(depots = <<>>)
        /\ Cardinality(ErrorsOfKind(errors, "no_station")) = OneIf(stations = <<>>)
        /\ Cardinality(ErrorsOfKind(errors, "no_truck")) = OneIf(trucks = <<>>)
        /\ \A p \in DemandProducts :
              Cardinality({i \in ErrorsOfKind(errors, "stock") : errors[i][2] = p})
                 = OneIf(TotalStockOf(p) < TotalDemandOf(p))
        /\ \A i \in ErrorsOfKind(errors, "stock") : errors[i][2] \in DemandProducts
        /\ Cardinality(ErrorsOfKind(errors, "capacity"))
              = OneIf(SumSeq([i \in 1..Len(trucks) |-> trucks[i].capacity]) < LargestDemand)
        /\ \A i \in 1..Len(errors) :
              errors[i][1] \in {"no_garage", "no_depot", "no_station", "no_truck", "stock",
                                "capacity"}

\* an instance with no garage, short of stock for two products and short of
\* capacity
C7_Witness ==
    /\ pc = "rejected"
    /\ garages = <<>>
    /\ Cardinality(ErrorsOfKind(errors, "stock")) = 2
    /\ Cardinality(ErrorsOfKind(errors, "capacity")) = 1
    /\ Len(errors) = 4

\* C8: once validate_instance has returned false, the run never enters
\* solve(): it stops with the errors it reported and no solution.
C8_NoSolveAfterReject ==
    (pc # "start" /\ ~valid) =>
        /\ pc \in {"validated", "rejected"}
        /\ run = 0
        /\ solution = <<>>
        /\ errors # <<>>

\* a run rejected for lack of stock
C8_Witness ==
    /\ pc = "rejected"
    /\ garages # <<>> /\ trucks # <<>> /\ Len(depots) = 1 /\ Len(stations) = 1
    /\ ErrorsOfKind(errors, "stock") # {}

UnmetPairs ==
    {k \in DemandKeys(stations) : QuantityTo(solution, k[1], k[2]) # InitialDemand(k)}

OverloadedMinis ==
    {ij \in (1..Len(solution)) \X {1, 2} :
        /\ ij[2] <= Len(solution[ij[1]].mini_routes)
        /\ solution[ij[1]].mini_routes[ij[2]].load_quantity
              > FirstWithId(trucks, solution[ij[1]].truck_id).value.capacity}

\* C9: validate_solution returns valid iff every (station, product) with
\* declared demand is delivered its demand in total over all MiniRoutes and
\* every MiniRoute, taken alone, loads at most its truck's capacity; the
\* error list has one entry per unmet pair and one per overloaded MiniRoute.
C9_ValidateSolution ==
    pc = "done" =>
        /\ sol_result.valid <=> (UnmetPairs = {} /\ OverloadedMinis = {})
        /\ sol_result.valid <=> sol_result.errors = <<>>
        /\ Cardinality(ErrorsOfKind(sol_result.errors, "unmet")) = Cardinality(UnmetPairs)
        /\ Cardinality(ErrorsOfKind(sol_result.errors, "capacity"))
              = Cardinality(OverloadedMinis)
        /\ Len(sol_result.errors) = Cardinality(UnmetPairs) + Cardinality(OverloadedMinis)

\* a solution with an over-delivered pair and two overloaded MiniRoutes of one
\* route
C9_Witness ==
    /\ pc = "done"
    /\ \E k \in UnmetPairs : QuantityTo(solution, k[1], k[2]) > InitialDemand(k)
    /\ \E i \in 1..Len(solution) : {<<i, 1>>, <<i, 2>>} \subseteq OverloadedMinis

CacheSymmetric ==
    \A key \in DOMAIN distance_matrix :
        /\ ReverseKey(key) \in DOMAIN distance_matrix
        /\ distance_matrix[ReverseKey(key)] = distance_matrix[key]

ExistingKeys ==
    {key \in DistanceKeys :
        /\ get_location(garages, depots, stations, key[1], key[2]).exc = None
        /\ get_location(garages, depots, stations, key[3], key[4]).exc = None}

CallsAgree ==
    \A key \in ExistingKeys :
        distance(garages, depots, stations, distance_matrix, key).value
            = distance(garages, depots, stations, distance_matrix, ReverseKey(key)).value

CacheStableStep ==
    /\ \A key \in DOMAIN distance_matrix :
          /\ key \in DOMAIN distance_matrix'
          /\ distance_matrix'[key] = distance_matrix[key]
    /\ dist_call'.hit => dist_call'.value = distance_matrix[dist_call'.key]

\* C10: after any sequence of distance calls, distance(a, b) = distance(b, a)
\* for all existing locations, and a key is in the cache only with its
\* reverse, under the same value; a call never changes or removes an entry,
\* and a call on a cached key returns the cached value.
C10_DistanceCache == [](CacheSymmetric /\ CallsAgree) /\ [][CacheStableStep]_vars

\* a call answered from a cache holding one pair of locations, under both keys
C10_Witness ==
    /\ dist_call.hit
    /\ dist_call.exc = None
    /\ dist_call.value = 5
    /\ Cardinality(DOMAIN distance_matrix) = 2

\* C11: get_changeover_cost(p, q) is 0 when p = q, whatever the table lists
\* for (p, p); for p # q it is the table's entry for the ordered pair (p, q),
\* and 0 when the table has none, whatever it lists for (q, p).
C11_ChangeoverCost ==
    /\ cost_call.from = cost_call.to => cost_call.value = 0
    /\ (cost_call.from # cost_call.to
        /\ <<cost_call.from, cost_call.to>> \in DOMAIN cost_call.costs) =>
          cost_call.value = cost_call.costs[<<cost_call.from, cost_call.to>>]
    /\ (cost_call.from # cost_call.to
        /\ <<cost_call.from, cost_call.to>> \notin DOMAIN cost_call.costs) =>
          cost_call.value = 0

\* a pair missing from a table that lists the reversed pair and both (p, p)
C11_Witness ==
    /\ cost_call.from # cost_call.to
    /\ <<cost_call.from, cost_call.to>> \notin DOMAIN cost_call.costs
    /\ <<cost_call.to, cost_call.from>> \in DOMAIN cost_call.costs
    /\ <<cost_call.from, cost_call.from>> \in DOMAIN cost_call.costs
    /\ cost_call.value = 0

\* both ids of the last call exist in their categories
CalledKeyExists == dist_call.key \in ExistingKeys

\* LookupError and its subclasses
IsLookupError(exc) == exc \in {"LookupError", "KeyError", "IndexError"}

\* C12 as stated: distance never fails when both ids exist in their
\* categories; when either id does not exist it fails with LookupError, and
\* the cache holds nothing for a key with a missing id.
C12_AsStated ==
    dist_call.calls > 0 =>
        /\ CalledKeyExists => dist_call.exc = None
        /\ ~CalledKeyExists =>
              /\ IsLookupError(dist_call.exc)
              /\ DOMAIN distance_matrix \subseteq ExistingKeys

\* the Euclidean distance between two places <<type, id>>
PlaneDistance(a, b) ==
    Euclid(get_location(garages, depots, stations, a[1], a[2]).value,
           get_location(garages, depots, stations, b[1], b[2]).value)

\* garage, depot, the stations in sequence, garage
StopsOf(r) ==
    <<<<GARAGE, r.garage_id>>, <<DEPOT, r.mini_routes[1].depot_id>>>>
    \o [k \in 1..Len(r.mini_routes[1].stations) |->
           <<STATION, r.mini_routes[1].stations[k][1]>>]
    \o <<<<GARAGE, r.garage_id>>>>

PathLength(stops) ==
    SumSeq([i \in 1..(Len(stops) - 1) |-> PlaneDistance(stops[i], stops[i + 1])])

\* one depot, one station asking for product 0 only, one truck with initial
\* product 0 that holds the demand, the depot holding it too
SingleOfEach ==
    /\ Len(depots) = 1 /\ Len(stations) = 1 /\ Len(trucks) = 1
    /\ stations[1].demand[0] > 0 /\ stations[1].demand[1] = 0
    /\ trucks[1].initial_product = 0
    /\ trucks[1].capacity > stations[1].demand[0]
    /\ depots[1].stock[0] > trucks[1].capacity

\* every answer of the search visits every station within the capacities
SearchVisitsAll ==
    \A i \in 1..Len(rounds) :
        (rounds[i].kind = "round" /\ rounds[i].oracle.solution) =>
            CapacityRespectingPartition(rounds[i])

\* C13: every route's total_distance is distance(garage, depot) +
\* distance(depot, first station) + the distances between consecutive
\* stations + distance(last station, garage), the garage being the truck's,
\* and total_cost = total_distance + total_changeover_cost.  One depot, one
\* station and one truck large enough, the search visiting every station or
\* failing, give exactly one route with one MiniRoute, loaded with the
\* station's demand, at no changeover cost.
C13_RouteCosting ==
    /\ \A r \in Range(routes) \cup Range(solution) :
          /\ r.garage_id = FirstWithId(trucks, r.truck_id).value.garage_id
          /\ r.total_distance = PathLength(StopsOf(r))
          /\ r.total_cost = r.total_distance + r.total_changeover_cost
    /\ (pc \in FinalPcs /\ SingleOfEach /\ SearchVisitsAll) =>
          /\ Len(solution) = 1
          /\ Len(solution[1].mini_routes) = 1
          /\ solution[1].mini_routes[1].load_quantity = stations[1].demand[0]
          /\ solution[1].total_changeover_cost = 0

\* a returned route through two stations at different places, 3 + 3 + 5 + 5
C13_Witness ==
    /\ pc = "done"
    /\ \E r \in Range(solution) :
          /\ Len(r.mini_routes[1].stations) = 2
          /\ r.mini_routes[1].stations[1][1] = 2
          /\ r.total_distance = 16

\* the scenario of one depot, one station and one truck
C13_Scenario == pc = "done" /\ SingleOfEach /\ SearchVisitsAll /\ Len(solution) = 1

\* the trucks that have a route among the routes rs
TrucksRouted(rs) == {rs[i].truck_id : i \in 1..Len(rs)}

\* C14: every route stored, by the search's path or the fallback's, has
\* exactly one MiniRoute, which lists at least one station and carries the
\* product of the round that built it; a truck the search gave no station, or
\* stations it cannot deliver anything to, has no route in the round.
C14_NoEmptyRoute ==
    /\ \A r \in Range(routes) \cup Range(solution) \cup Range(product_routes) :
          /\ Len(r.mini_routes) = 1
          /\ Len(r.mini_routes[1].stations) >= 1
    /\ pc = "update" =>
          /\ \A r \in Range(product_routes) : r.mini_routes[1].product_id = Head(todo)
          /\ rounds[Len(rounds)].oracle.solution =>
                \A v \in 1..Len(trucks) :
                    (rounds[Len(rounds)].oracle.lists[v] = <<>> \/ trucks[v].capacity <= 0)
                        => trucks[v].id \notin TrucksRouted(product_routes)

\* the search gave a station to a truck that holds nothing and another to a
\* truck that got a route
C14_Witness ==
    /\ pc = "update"
    /\ rounds[Len(rounds)].oracle.solution
    /\ \E v \in 1..Len(trucks) :
          /\ rounds[Len(rounds)].oracle.lists[v] # <<>>
          /\ trucks[v].capacity = 0
    /\ Len(product_routes) = 1

\* the adjacent MiniRoute pairs of one route whose products differ
ProductChanges ==
    UNION {{<<i, j>> : j \in {k \in 1..(Len(solution[i].mini_routes) - 1) :
                                solution[i].mini_routes[k].product_id
                                   # solution[i].mini_routes[k + 1].product_id}} :
           i \in 1..Len(solution)}

\* C15: get_metrics reports the number of distinct truck ids of the solution
\* as num_vehicles, the number of adjacent MiniRoute pairs of one route with
\* different products as num_product_changes, the sums of the routes' fields
\* as total_distance and total_changeover_cost, and their sum, which is the
\* sum of the routes' total_cost, as total_cost.
C15_Metrics ==
    pc \in {"measured", "done"} =>
        /\ metrics.num_vehicles = Cardinality(TrucksRouted(solution))
        /\ metrics.num_product_changes = Cardinality(ProductChanges)
        /\ metrics.total_distance
              = SumSeq([i \in 1..Len(solution) |-> solution[i].total_distance])
        /\ metrics.total_changeover_cost
              = SumSeq([i \in 1..Len(solution) |-> solution[i].total_changeover_cost])
        /\ metrics.total_cost = metrics.total_distance + metrics.total_changeover_cost
        /\ metrics.total_cost = SumSeq([i \in 1..Len(solution) |-> solution[i].total_cost])

\* two routes of one truck, one of them changing product
C15_Witness ==
    /\ pc = "measured"
    /\ Len(solution) = 2
    /\ metrics.num_vehicles = 1
    /\ metrics.num_product_changes = 1
    /\ metrics.total_changeover_cost = 2

\* the products of the iterations made so far, in order
ProductsDone == [i \in 1..Len(rounds) |-> rounds[i].product]

\* product p's iteration is over
RoundEnded(p) ==
    /\ \E i \in 1..Len(rounds) : rounds[i].product = p
    /\ ~(pc = "update" /\ Head(todo) = p)

RoutesFor(rs, p) == SelectSeq(rs, LAMBDA r : r.mini_routes[1].product_id = p)

\* the iterations made are the first products in ascending order, the routes
\* are grouped by product in ascending order, and a round starts from the
\* demand the rounds before it left
InOrder ==
    /\ run >= 1 =>
          /\ ProductsDone = SubSeq(SortedSeq(products), 1, Len(rounds))
          /\ pc = "loop" => ProductsDone \o todo = SortedSeq(products)
          /\ pc \in FinalPcs => ProductsDone = SortedSeq(products)
    /\ \A i, j \in 1..Len(routes) :
          i < j => routes[i].mini_routes[1].product_id <= routes[j].mini_routes[1].product_id
    /\ pc = "loop" =>
          \A k \in DemandKeys(stations) :
              remaining_demand[k] = InitialDemand(k) - QuantityTo(routes, k[1], k[2])

\* a step leaves the routes and the remaining demand of an ended round alone
EndedRoundsKept ==
    \A p \in products :
        RoundEnded(p) =>
            /\ RoutesFor(routes', p) = RoutesFor(routes, p)
            /\ \A k \in DOMAIN remaining_demand :
                  k[2] = p => remaining_demand'[k] = remaining_demand[k]

\* what is left of the loop: two steps for a product not yet started, one
\* step for the update of the product in hand, one step for the return
StepsLeft(at, left) == 2 * Len(left) + (IF at = "loop" THEN 1 ELSE 0)

\* a step of the loop uses up what is left of it
LoopAdvances ==
    pc \in {"loop", "update"} => StepsLeft(pc', todo') < StepsLeft(pc, todo)

\* C16: solve() goes through every product of the instance exactly once, in
\* ascending id order, and returns after the last one; a round's demand
\* update is done before the next round selects its stations, the routes are
\* grouped by product in ascending order, and after product p's round no step
\* adds a route for p or changes the remaining demand of p.
C16_RoundOrder ==
    /\ []InOrder
    /\ [][EndedRoundsKept /\ LoopAdvances]_vars
    /\ (pc = "update") ~> (pc = "loop")
    /\ (pc = "loop" /\ todo = <<>>) ~> (pc = "solved" /\ ProductsDone = SortedSeq(products))

\* solve() has returned routes for product 0 and for product 1
C16_Witness ==
    /\ pc = "solved"
    /\ Len(rounds) = 2
    /\ RoutesFor(solution, 0) # <<>>
    /\ RoutesFor(solution, 1) # <<>>

\* the positions of the depots that hold product p
Holders(p) == {i \in 1..Len(depots) : Get(depots[i].stock, p, 0) > 0}

\* the first depot of the instance that holds product p
FirstHolder(p) == depots[CHOOSE i \in Holders(p) : \A j \in Holders(p) : i <= j]

\* C17: every route built in product p's round leaves from the first depot,
\* in instance order, whose stock of p is positive, and loads no more than
\* that depot holds; a round is made only when such a depot exists.
C17_SingleDepot ==
    /\ \A i \in 1..Len(rounds) :
          IF rounds[i].kind = "round"
          THEN /\ Holders(rounds[i].product) # {}
               /\ rounds[i].depot_id = FirstHolder(rounds[i].product).id
          ELSE rounds[i].kind = "no_depot" => Holders(rounds[i].product) = {}
    /\ \A x \in MinisWithTruck(routes) :
          /\ Holders(x.mini.product_id) # {}
          /\ x.mini.depot_id = FirstHolder(x.mini.product_id).id
          /\ x.mini.load_quantity <= FirstHolder(x.mini.product_id).stock[x.mini.product_id]

\* depot 1 holds one unit of product 0 and none of product 1, depot 2 holds
\* both; two units of product 0 were asked for, one was delivered from depot 1
\* and one is still missing; product 1 was delivered from depot 2
C17_Witness ==
    /\ pc = "solved"
    /\ Len(depots) = 2
    /\ depots[1].stock[0] = 1 /\ depots[1].stock[1] = 0
    /\ TotalDemandOf(0) = 2
    /\ \E x \in MinisWithTruck(solution) : x.mini.product_id = 0 /\ x.mini.depot_id = 1
    /\ \E x \in MinisWithTruck(solution) : x.mini.product_id = 1 /\ x.mini.depot_id = 2
    /\ \E k \in DemandKeys(stations) : k[2] = 0 /\ remaining_demand[k] = 1

\* the routes of product p that truck t received
RoutesOfTruck(rs, p, t) == SelectSeq(RoutesFor(rs, p), LAMBDA r : r.truck_id = t)

\* what truck t loaded over the whole run
LoadedBy(rs, t) ==
    SumSeq([i \in 1..Len(rs) |->
               IF rs[i].truck_id = t THEN rs[i].mini_routes[1].load_quantity ELSE 0])

\* C18: the set of used trucks stays empty, so every round offers the whole
\* truck list of the instance to the search and to the fallback, whatever
\* routes the trucks already have; a truck gets at most one route per round,
\* and its load of that round alone is checked against its capacity.
C18_TruckReuse ==
    /\ used_trucks = {}
    /\ AvailableTrucks(trucks, used_trucks) = trucks
    /\ \A i \in 1..Len(rounds) :
          rounds[i].kind = "round" =>
              IF trucks = <<>> THEN rounds[i].oracle = NotCalled
              ELSE DOMAIN rounds[i].oracle.lists = 1..Len(trucks)
    /\ \A p \in products : \A t \in TruckIds(trucks) : Len(RoutesOfTruck(routes, p, t)) <= 1
    /\ \A i \in 1..Len(routes) :
          routes[i].mini_routes[1].load_quantity
             <= FirstWithId(trucks, routes[i].truck_id).value.capacity

\* one truck has a route for product 0 and a route for product 1, and the
\* two loads together exceed its capacity
C18_Witness ==
    /\ pc = "solved"
    /\ \E t \in TruckIds(trucks) :
          /\ Len(RoutesOfTruck(solution, 0, t)) = 1
          /\ Len(RoutesOfTruck(solution, 1, t)) = 1
          /\ LoadedBy(solution, t) > FirstWithId(trucks, t).value.capacity

\* the remaining demand a call of _build_mini_route is given for station sid
CallDemand(sid) == Get(mini_call.rd, <<sid, mini_call.product>>, 0)

\* straight-line distance from the call's depot to station sid
FromDepot(sid) == PlaneDistance(<<DEPOT, mini_call.depot.id>>, <<STATION, sid>>)

\* min(truck capacity, sum of the listed stations' remaining demand, depot stock)
ExpectedLoad ==
    Min2(mini_call.truck.capacity,
         Min2(SumSeq([k \in 1..Len(mini_call.station_list) |->
                         CallDemand(mini_call.station_list[k].id)]),
              Get(mini_call.depot.stock, mini_call.product, 0)))

\* what was delivered before the k-th stop of MiniRoute m
DeliveredBefore(m, k) == SumSeq([j \in 1..(k - 1) |-> m.stations[j][2]])

ServedIds(m) == {m.stations[k][1] : k \in 1..Len(m.stations)}

ListedIds == {mini_call.station_list[k].id : k \in 1..Len(mini_call.station_list)}

AssembledAsStated(m) ==
    /\ m.depot_id = mini_call.depot.id
    /\ m.product_id = mini_call.product
    /\ m.load_quantity = ExpectedLoad
    /\ ServedIds(m) \subseteq ListedIds
    /\ \A k, l \in 1..Len(m.stations) :
          k < l => /\ m.stations[k][1] # m.stations[l][1]
                   /\ FromDepot(m.stations[k][1]) <= FromDepot(m.stations[l][1])
    /\ \A k \in 1..Len(m.stations) :
          /\ m.stations[k][2] > 0
          /\ m.stations[k][2] = Min2(m.load_quantity - DeliveredBefore(m, k),
                                     CallDemand(m.stations[k][1]))
    /\ \A sid \in ListedIds \ ServedIds(m) :
          \/ CallDemand(sid) = 0
          \/ /\ DeliveredBy(m) = m.load_quantity
             /\ \A k \in 1..Len(m.stations) : FromDepot(m.stations[k][1]) <= FromDepot(sid)

\* C19: _build_mini_route, for any truck, depot, product and station list in
\* any order, loads min(truck capacity, sum of the stations' remaining demand,
\* depot stock) and builds no MiniRoute when that is <= 0; otherwise the
\* stations are served in nondecreasing distance to the depot, each getting
\* min(remaining capacity, its remaining demand), until the capacity is used
\* up, and a station that gets 0 is not listed.
C19_RouteAssembler ==
    mini_call.called =>
        IF ExpectedLoad <= 0 THEN mini_call.mini = <<>>
        ELSE /\ Len(mini_call.mini) = 1
             /\ AssembledAsStated(mini_call.mini[1])

\* the list names the farther station first; the nearer one was served first
\* and in full, the farther one got what was left, less than it needs
C19_Witness ==
    /\ mini_call.called
    /\ Len(mini_call.station_list) = 2
    /\ Len(mini_call.mini) = 1
    /\ Len(mini_call.mini[1].stations) = 2
    /\ mini_call.mini[1].stations[1][1] = mini_call.station_list[2].id
    /\ FromDepot(mini_call.station_list[2].id) < FromDepot(mini_call.station_list[1].id)
    /\ mini_call.mini[1].stations[2][2] < CallDemand(mini_call.station_list[1].id)

\* a listed station with no remaining demand is left out of the MiniRoute
C19_ZeroOmitted ==
    /\ mini_call.called
    /\ Len(mini_call.mini) = 1
    /\ \E sid \in ListedIds \ ServedIds(mini_call.mini[1]) : CallDemand(sid) = 0

\* the cost listed for going from product p to product q, 0 when none is
ListedCost(p, q) == IF <<p, q>> \in DOMAIN changeover_costs THEN changeover_costs[<<p, q>>] ELSE 0

\* one changeover from the truck's initial product to the route's product
BaselineCost(r) ==
    IF FirstWithId(trucks, r.truck_id).value.initial_product = r.mini_routes[1].product_id
    THEN 0
    ELSE ListedCost(FirstWithId(trucks, r.truck_id).value.initial_product,
                    r.mini_routes[1].product_id)

\* C20: every route holds one MiniRoute and its total_changeover_cost is the
\* changeover cost from its truck's initial product to the product of that
\* MiniRoute, 0 when the two are equal, whatever the truck carried in an
\* earlier round.
C20_ChangeoverBaseline ==
    \A r \in Range(routes) \cup Range(solution) :
        /\ Len(r.mini_routes) = 1
        /\ r.total_changeover_cost = BaselineCost(r)

\* a truck whose initial product is 1 carried product 0 and then product 1,
\* and its route for product 1 bears no changeover cost
C20_Witness ==
    /\ pc = "solved"
    /\ \E t \in TruckIds(trucks) :
          /\ FirstWithId(trucks, t).value.initial_product = 1
          /\ Len(RoutesOfTruck(solution, 0, t)) = 1
          /\ Len(RoutesOfTruck(solution, 1, t)) = 1
          /\ RoutesOfTruck(solution, 1, t)[1].total_changeover_cost = 0

\* the remaining demand a call of _assign_stations_greedy is given for station sid
GreedyDemand(sid) == Get(greedy_call.rd, <<sid, greedy_call.product>>, 0)

\* straight-line distance from the call's depot to station sid
GreedyDistance(sid) == PlaneDistance(<<DEPOT, greedy_call.depot.id>>, <<STATION, sid>>)

\* the pairs (station id, position of the truck) that fit: the station is
\* unvisited and needs the product, and the truck has room for all it needs
FittingPairs(unvisited, truck_load) ==
    {x \in unvisited \X (1..Len(greedy_call.truck_list)) :
        /\ GreedyDemand(x[1]) > 0
        /\ truck_load[greedy_call.truck_list[x[2]].id] + GreedyDemand(x[1])
              <= greedy_call.truck_list[x[2]].capacity}

\* pair x is met before pair y: the unvisited ids are gone through in
\* ascending order and, for each of them, the trucks in list order
MetBefore(x, y) == x[1] < y[1] \/ (x[1] = y[1] /\ x[2] <= y[2])

\* a fitting pair nearest to the depot, the first one met among the nearest
SelectedPair(F) ==
    CHOOSE x \in F :
        \A y \in F :
            \/ GreedyDistance(x[1]) < GreedyDistance(y[1])
            \/ GreedyDistance(x[1]) = GreedyDistance(y[1]) /\ MetBefore(x, y)

RECURSIVE SelectionRule(_, _, _)

AfterSelection(x, unvisited, lists, truck_load) ==
    SelectionRule(unvisited \ {x[1]},
                  [lists EXCEPT ![greedy_call.truck_list[x[2]].id] = Append(@, x[1])],
                  [truck_load EXCEPT ![greedy_call.truck_list[x[2]].id] =
                      @ + GreedyDemand(x[1])])

\* the station ids each truck gets when every iteration takes the selected pair
SelectionRule(unvisited, lists, truck_load) ==
    IF FittingPairs(unvisited, truck_load) = {} THEN lists
    ELSE AfterSelection(SelectedPair(FittingPairs(unvisited, truck_load)),
                        unvisited, lists, truck_load)

GreedyIds(t) ==
    [k \in 1..Len(greedy_call.truck_routes[t]) |-> greedy_call.truck_routes[t][k].id]

GreedyListed == {greedy_call.station_list[k].id : k \in 1..Len(greedy_call.station_list)}

C21_NearestFirst ==
    /\ greedy_call.called
    /\ Len(greedy_call.truck_list) = 2
    /\ GreedyDistance(2) < GreedyDistance(1)
    /\ GreedyIds(1) = <<2>>
    /\ GreedyIds(2) = <<1>>
    /\ greedy_call.truck_list[1].capacity >= GreedyDemand(1)

\* round e was made by the fallback
FallbackRound(e) == e.kind = "round" /\ trucks # <<>> /\ ~e.oracle.solution

\* the stations of round e the fallback gave to no truck
LeftUnassigned(e) ==
    {sid \in Range(e.station_ids) :
        \A t \in DOMAIN GreedyListsOf(e) :
            \A k \in 1..Len(GreedyListsOf(e)[t]) : GreedyListsOf(e)[t][k].id # sid}

\* the stations of round e that need more than any truck carries
FitsNoTruck(e) ==
    {sid \in Range(e.station_ids) :
        \A v \in 1..Len(trucks) :
            FirstWithId(stations, sid).value.demand[e.product] > trucks[v].capacity}

\* validate_solution reported that station sid got nothing of product p
ReportedUnmet(sid, p) ==
    \E n \in 1..Len(sol_result.errors) :
        /\ sol_result.errors[n][1] = "unmet"
        /\ sol_result.errors[n][2] = sid
        /\ sol_result.errors[n][3] = p
        /\ sol_result.errors[n][4] = 0

\* C22: a round in which the fallback finds no fitting pair for some station
\* ends like any other: the station left unassigned (such as one needing more
\* than any truck carries) gets no delivery, its remaining demand stays what
\* it was, its product has no second round, solve() returns, and
\* validate_solution lists the pair as unmet.
C22_InfeasibleRound ==
    \A i \in 1..Len(rounds) :
        FallbackRound(rounds[i]) =>
            /\ FitsNoTruck(rounds[i]) \subseteq LeftUnassigned(rounds[i])
            /\ \A j \in 1..Len(rounds) : j # i => rounds[j].product # rounds[i].product
            /\ \A sid \in LeftUnassigned(rounds[i]) :
                  /\ QuantityTo(routes, sid, rounds[i].product) = 0
                  /\ remaining_demand[<<sid, rounds[i].product>>]
                        = InitialDemand(<<sid, rounds[i].product>>)
                  /\ remaining_demand[<<sid, rounds[i].product>>] > 0
                  /\ pc \in FinalPcs => QuantityTo(solution, sid, rounds[i].product) = 0
                  /\ pc = "done" =>
                        /\ ~sol_result.valid
                        /\ ReportedUnmet(sid, rounds[i].product)

\* the search failed; station 1 needs more than any truck carries and got
\* nothing, station 2 was served in full, and validate_solution has reported
\* station 1
C22_Witness ==
    /\ pc = "done"
    /\ Len(stations) = 2
    /\ \E i \in 1..Len(rounds) :
          /\ FallbackRound(rounds[i])
          /\ rounds[i].product = 0
          /\ FitsNoTruck(rounds[i]) = {1}
          /\ LeftUnassigned(rounds[i]) = {1}
    /\ QuantityTo(solution, 2, 0) = InitialDemand(<<2, 0>>)
    /\ ReportedUnmet(1, 0)

\* no station still needs product p, or no depot holds it
NothingToDo(p) ==
    \/ \A i \in 1..Len(stations) : Get(remaining_demand, <<stations[i].id, p>>, 0) <= 0
    \/ \A i \in 1..Len(depots) : Get(depots[i].stock, p, 0) <= 0

\* what a step of the loop may change
RoundFrame ==
    /\ garages' = garages /\ depots' = depots /\ stations' = stations /\ trucks' = trucks
    /\ changeover_costs' = changeover_costs
    /\ (pc = "loop" /\ todo # <<>> /\ NothingToDo(Head(todo))) =>
          /\ routes' = routes
          /\ remaining_demand' = remaining_demand
          /\ pc' = "loop"
          /\ todo' = Tail(todo)
    /\ (pc = "loop" /\ todo # <<>> /\ ~NothingToDo(Head(todo))) =>
          /\ remaining_demand' = remaining_demand
          /\ routes' = routes \o product_routes'
          /\ \A x \in MinisWithTruck(product_routes') : x.mini.product_id = Head(todo)
          /\ pc' = "update"
    /\ pc = "update" =>
          /\ routes' = routes
          /\ DOMAIN remaining_demand' = DOMAIN remaining_demand
          /\ \A k \in DOMAIN remaining_demand :
                remaining_demand'[k] =
                    IF k[2] = Head(todo)
                    THEN remaining_demand[k] - QuantityTo(product_routes, k[1], k[2])
                    ELSE remaining_demand[k]

\* C23: a round for product p appends routes of p and lowers the remaining
\* demand (station, p) of each station it delivers to by what it delivers
\* there; the remaining demand of other products, the depots with their
\* stocks, the stations with their demands and the trucks stay as they are.
\* A product no station still needs, or no depot holds, is skipped: no route
\* is added and nothing changes.
C23_RoundFrame == [][RoundFrame]_vars

\* product 0 had a round that served station 1 in full; product 1, which
\* station 1 needs and no depot holds, was skipped and is still needed
C23_Witness ==
    /\ pc = "solved"
    /\ Len(rounds) = 2
    /\ rounds[1].kind = "round"
    /\ rounds[2].kind = "no_depot"
    /\ InitialDemand(<<1, 0>>) > 0
    /\ remaining_demand[<<1, 0>>] = 0
    /\ remaining_demand[<<1, 1>>] = 1
    /\ \A x \in MinisWithTruck(solution) : x.mini.product_id = 0

\* what the MiniRoutes of rs load of product p at depot d
LoadedAt(rs, d, p) ==
    SumSeq([i \in 1..Len(rs) |->
        SumSeq([j \in 1..Len(rs[i].mini_routes) |->
            IF rs[i].mini_routes[j].depot_id = d /\ rs[i].mini_routes[j].product_id = p
            THEN rs[i].mini_routes[j].load_quantity ELSE 0])])

\* C24 as stated: after solve(), for every depot and product, the MiniRoutes
\* loading that product at that depot load together no more than the depot's
\* stock of it.
C24_AsStated ==
    pc \in FinalPcs =>
        \A i \in 1..Len(depots) : \A p \in DOMAIN depots[i].stock :
            LoadedAt(solution, depots[i].id, p) <= depots[i].stock[p]

\* C25 as stated: whenever get_metrics, called on a solution solve() made,
\* reports total_changeover_cost > 0, it reports num_product_changes > 0 too.
C25_AsStated ==
    pc \in {"measured", "done"} =>
        (metrics.total_changeover_cost > 0 => metrics.num_product_changes > 0)

\* get_metrics on a solution solve() made never counts a product change
C25_NoChangeCounted ==
    pc \in {"measured", "done"} => metrics.num_product_changes = 0

====
